---------------------------- MODULE Spec2Model ----------------------------
(***************************************************************************)
(* A model of the pytucanos binding layer (src/src/lib.rs, src/src/mesh.rs, *)
(* src/src/parallel.rs): the array-shape validation of the mesh and metric  *)
(* entry points, the sequential Remesher.remesh call and the               *)
(* ParallelRemesher constructor and remesh call.                           *)
(*                                                                         *)
(* The remeshing engine itself (crate tucanos: Remesher::remesh,           *)
(* ParallelRemesher::remesh) is not part of the sources; where a property  *)
(* depends on it, the engine is modelled from the design document and the  *)
(* definitions concerned are marked as such in MODEL_MAP.json.             *)
(***************************************************************************)
EXTENDS Integers, Naturals, Sequences, FiniteSets, TLC

VARIABLES
    mesh,       \* the Mesh object held by the caller (NoMesh before creation)
    geom,       \* the LinearGeometry object: "none" | "some" | "taken"
    remesher,   \* the sequential Remesher object (NoObj before creation)
    dd,         \* the ParallelRemesher object (NoObj before creation)
    call,       \* the binding call in flight or just returned (Idle otherwise)
    seq,        \* the state of the sequential engine during Remesher.remesh
    par,        \* the state of the parallel engine during ParallelRemesher.remesh
    cache       \* the connectivity caches of the mesh

vars == <<mesh, geom, remesher, dd, call, seq, par, cache>>

-----------------------------------------------------------------------------
(* Bounds of the model *)

\* largest number of vertices of a mesh
MaxVerts == 2
\* largest number of rows of the elems / faces / tags arrays
MaxRows == 1
\* how far a column count may be from the expected one
ColSlack == 1

Min(a, b) == IF a <= b THEN a ELSE b

-----------------------------------------------------------------------------
(* Mesh classes: create_mesh!(name, dim, etype) *)

MeshKinds == {"Mesh33", "Mesh32", "Mesh31", "Mesh22", "Mesh21"}

\* $dim of a mesh class
Dim(k) == IF k \in {"Mesh33", "Mesh32", "Mesh31"} THEN 3 ELSE 2

\* <$etype as Elem>::N_VERTS of a mesh class
ElemVerts(k) ==
    CASE k = "Mesh33" -> 4
      [] k \in {"Mesh32", "Mesh22"} -> 3
      [] k \in {"Mesh31", "Mesh21"} -> 2

\* <$etype as Elem>::Face::N_VERTS of a mesh class
FaceVerts(k) == ElemVerts(k) - 1

\* Metric types and their component count $metric::N
MetricTypes == {"Iso2d", "Aniso2d", "Iso3d", "Aniso3d"}

MetricN(t) ==
    CASE t \in {"Iso2d", "Iso3d"} -> 1
      [] t = "Aniso2d" -> 3
      [] t = "Aniso3d" -> 6

\* the mesh class a remesher of metric type t works on
MetricMesh(t) == IF t \in {"Iso2d", "Aniso2d"} THEN "Mesh22" ELSE "Mesh33"

NoMesh == [kind |-> "none", nv |-> 0, ne |-> 0, nf |-> 0]
NoObj == [kind |-> "none", nv |-> 0]
Idle == [op |-> "idle"]
\* present: the caches that are computed; stale: those of them computed
\* from vertices, elements or faces that have changed since
NoCache == [present |-> {}, stale |-> {}]

\* column counts tried around the expected count n
ColChoices(n) == {c \in (n - ColSlack)..(n + ColSlack) : c >= 0}
RowChoices == 0..MaxRows
VertChoices == 0..MaxVerts
\* row counts of a per-vertex array: every vertex count and one more
MetricRows == 0..(MaxVerts + 1)


-----------------------------------------------------------------------------
(* Results of a binding call.  res is "ok", "value_error" (PyValueError),   *)
(* "runtime_error" (PyRuntimeError) or "panic" (a Rust panic: unwrap of an   *)
(* Err or None, unreachable!(), a slice index out of range).  reads counts   *)
(* the metrics read from the array m, freads those read from the second      *)
(* metric array (fixed_m, implied_metric); engine tells whether the tucanos  *)
(* engine was entered.  All arrays are C-contiguous.                         *)

Out(res, msg, reads, freads, engine) ==
    [res |-> res, msg |-> msg, reads |-> reads, freads |-> freads,
     engine |-> engine]

ValueError(msg) == Out("value_error", msg, 0, 0, FALSE)

\* the record kept of a call: its arguments, its result and the objects
\* as they were when it was made
Returned(op, a, out) ==
    call' = [op |-> op, a |-> a, res |-> out.res, msg |-> out.msg,
             reads |-> out.reads, freads |-> out.freads,
             engine |-> out.engine,
             pre |-> [mesh |-> mesh, geom |-> geom, remesher |-> remesher,
                      dd |-> dd]]

\* the caller takes the result of the call
Return ==
    /\ call # Idle
    /\ call' = Idle
    /\ UNCHANGED <<mesh, geom, remesher, dd, seq, par, cache>>

-----------------------------------------------------------------------------
(* create_mesh!::new : the shape checks of the constructor *)

\* a MeshNewCheck that forgets to compare etags with the rows of elems
MeshNewCheckNoEtags(k, a) ==
    IF a.cc # Dim(k) THEN "Invalid dimension 1 for coords"
    ELSE IF a.ec # ElemVerts(k) THEN "Invalid dimension 1 for elems"
    ELSE IF a.fc # FaceVerts(k) THEN "Invalid dimension 1 for faces"
    ELSE IF a.ft # a.fr THEN "Invalid dimension 0 for ftags"
    ELSE "ok"

MeshNewCheck(k, a) ==
    IF a.cc # Dim(k) THEN "Invalid dimension 1 for coords"
    ELSE IF a.ec # ElemVerts(k) THEN "Invalid dimension 1 for elems"
    ELSE IF a.et # a.er THEN "Invalid dimension 0 for etags"
    ELSE IF a.fc # FaceVerts(k) THEN "Invalid dimension 1 for faces"
    ELSE IF a.ft # a.fr THEN "Invalid dimension 0 for ftags"
    ELSE "ok"

\* Mesh33(coords, elems, etags, faces, ftags) and the four other classes.
\* cr, cc: rows and columns of coords; er, ec: of elems; et: length of etags;
\* fr, fc: rows and columns of faces; ft: length of ftags.
MeshNew ==
    /\ call = Idle
    /\ mesh = NoMesh
    /\ \E k \in MeshKinds, cr \in VertChoices, er \in RowChoices,
          et \in RowChoices, fr \in RowChoices, ft \in RowChoices :
       \E cc \in ColChoices(Dim(k)), ec \in ColChoices(ElemVerts(k)),
          fc \in ColChoices(FaceVerts(k)) :
         LET a == [kind |-> k, cr |-> cr, cc |-> cc, er |-> er, ec |-> ec,
                   et |-> et, fr |-> fr, fc |-> fc, ft |-> ft]
             chk == MeshNewCheck(k, a)
         IN  IF chk # "ok"
             THEN /\ Returned("MeshNew", a, ValueError(chk))
                  /\ mesh' = mesh
             ELSE /\ Returned("MeshNew", a, Out("ok", "", 0, 0, TRUE))
                  /\ mesh' = [kind |-> k, nv |-> cr, ne |-> er, nf |-> fr]
    /\ UNCHANGED <<geom, remesher, dd, seq, par, cache>>

\* the caller lets go of its objects
Drop ==
    /\ call = Idle
    /\ mesh # NoMesh
    /\ mesh' = NoMesh
    /\ geom' = "none"
    /\ remesher' = NoObj
    /\ dd' = NoObj
    /\ UNCHANGED <<call, seq, par, cache>>

\* LinearGeometry3d(mesh, geom) / LinearGeometry2d(mesh, geom): the geometry
\* is built from the mesh boundary; an engine error is unwrapped
GeomNew ==
    /\ call = Idle
    /\ mesh.kind \in {"Mesh33", "Mesh22"}
    /\ geom = "none"
    /\ \E ok \in BOOLEAN :
         IF ok
         THEN /\ geom' = "some"
              /\ Returned("GeomNew", [ok |-> ok], Out("ok", "", 0, 0, TRUE))
         ELSE /\ geom' = geom
              /\ Returned("GeomNew", [ok |-> ok],
                          Out("panic", "unwrap on Err", 0, 0, TRUE))
    /\ UNCHANGED <<mesh, remesher, dd, seq, par, cache>>

\* max_distance(mesh) and max_normal_angle(mesh) of a LinearGeometry:
\* self.geom.as_ref().unwrap()
GeomQueryOut ==
    IF geom = "some" THEN Out("ok", "", 0, 0, TRUE)
    ELSE Out("panic", "unwrap on None", 0, 0, FALSE)

GeomQuery ==
    /\ call = Idle
    /\ geom # "none"
    /\ \E op \in {"max_distance", "max_normal_angle"} :
         Returned(op, [ok |-> TRUE], GeomQueryOut)
    /\ UNCHANGED <<mesh, geom, remesher, dd, seq, par, cache>>

-----------------------------------------------------------------------------
(* The metric entry points of create_remesher! *)

\* a DimCheck that forgets the column count
DimCheckRowsOnly(rows, cols, n, N) ==
    IF rows # n THEN "Invalid dimension 0" ELSE "ok"

\* if m.shape()[0] != n { Invalid dimension 0 }
\* if m.shape()[1] != N { Invalid dimension 1 }
DimCheck(rows, cols, n, N) ==
    IF rows # n THEN "Invalid dimension 0"
    ELSE IF cols # N THEN "Invalid dimension 1"
    ELSE "ok"

\* (0..count).map(|i| $metric::from_slice(m, i)) on the flat slice of an
\* array of rows x cols values: metric i is m[i*N .. (i+1)*N]; the read of
\* the first metric that does not lie in the slice panics.
\* n: the metrics read; panic: whether the loop ended in a panic.
ReadMetrics(rows, cols, N, count) ==
    [n |-> Min(count, (rows * cols) \div N),
     panic |-> count * N > rows * cols]

\* the result of an engine call that follows the reading of the metrics:
\* ok tells whether the engine returned Ok, an Err becomes a PyRuntimeError
AfterEngine(ok, reads, freads) ==
    IF ok THEN Out("ok", "", reads, freads, TRUE)
    ELSE Out("runtime_error", "engine error", reads, freads, TRUE)

\* the shapes tried for a metric array of a mesh with metric type t
MetricArgs(t) ==
    [t : {t}, rows : MetricRows, cols : ColChoices(MetricN(t))]

\* the metric types of a remesher class working on the mesh held
MeshMetricTypes == {t \in MetricTypes : MetricMesh(t) = mesh.kind}

\* Remesher*::new(mesh, geometry, m)
RemesherNewOut(a, ok) ==
    LET chk == DimCheck(a.rows, a.cols, mesh.nv, MetricN(a.t))
    IN  IF chk # "ok" THEN ValueError(chk)
        ELSE IF geom # "some"
        THEN Out("panic", "unwrap on None", mesh.nv, 0, FALSE)
        ELSE AfterEngine(ok, mesh.nv, 0)

RemesherNew ==
    /\ call = Idle
    /\ geom # "none"
    /\ remesher = NoObj
    /\ \E t \in MeshMetricTypes : \E a \in MetricArgs(t), ok \in BOOLEAN :
         LET out == RemesherNewOut(a, ok)
         IN  /\ Returned("RemesherNew", a, out)
             \* geometry.geom.take() leaves None in the geometry object
             /\ geom' = IF out.res = "value_error" THEN geom ELSE "taken"
             /\ remesher' = IF out.res = "ok"
                            THEN [kind |-> a.t, nv |-> mesh.nv]
                            ELSE remesher
    /\ UNCHANGED <<mesh, dd, seq, par, cache>>

\* hessian_to_metric(mesh, m, p): every metric is read and scaled in turn
HessianToMetricOut(a) ==
    LET chk == DimCheck(a.rows, a.cols, mesh.nv, MetricN(a.t))
    IN  IF chk # "ok" THEN ValueError(chk)
        ELSE Out("ok", "", mesh.nv, 0, FALSE)

HessianToMetric ==
    /\ call = Idle
    /\ \E t \in MeshMetricTypes : \E a \in MetricArgs(t) :
         Returned("hessian_to_metric", a, HessianToMetricOut(a))
    /\ UNCHANGED <<mesh, geom, remesher, dd, seq, par, cache>>

\* scale_metric(mesh, m, h_min, h_max, n_elems, max_iter, fixed_m):
\* fixed_m (f.given) is read with from_slice without a check of its shape
ScaleMetricOut(a, f, ok) ==
    LET chk == DimCheck(a.rows, a.cols, mesh.nv, MetricN(a.t))
        fr == ReadMetrics(f.rows, f.cols, MetricN(a.t), mesh.nv)
    IN  IF chk # "ok" THEN ValueError(chk)
        ELSE IF ~f.given THEN AfterEngine(ok, mesh.nv, 0)
        ELSE IF fr.panic
        THEN Out("panic", "index out of range", mesh.nv, fr.n, FALSE)
        ELSE AfterEngine(ok, mesh.nv, fr.n)

\* the second metric array of a call: absent, or of some shape
SecondArgs(N) ==
    {[given |-> FALSE, rows |-> 0, cols |-> 0]}
    \cup [given : {TRUE}, rows : MetricRows, cols : ColChoices(N)]

ScaleMetric ==
    /\ call = Idle
    /\ \E t \in MeshMetricTypes :
       \E a \in MetricArgs(t), f \in SecondArgs(MetricN(t)), ok \in BOOLEAN :
         Returned("scale_metric", [t |-> a.t, rows |-> a.rows,
                                   cols |-> a.cols, f |-> f],
                  ScaleMetricOut(a, f, ok))
    /\ UNCHANGED <<mesh, geom, remesher, dd, seq, par, cache>>

\* smooth_metric, apply_metric_gradation, vertex_data_to_elem_data_metric:
\* the check, the reading of the n_verts metrics, the engine call
CheckedMetricOut(a, ok) ==
    LET chk == DimCheck(a.rows, a.cols, mesh.nv, MetricN(a.t))
    IN  IF chk # "ok" THEN ValueError(chk)
        ELSE AfterEngine(ok, mesh.nv, 0)

SmoothMetric ==
    /\ call = Idle
    /\ \E t \in MeshMetricTypes : \E a \in MetricArgs(t), ok \in BOOLEAN :
         Returned("smooth_metric", a, CheckedMetricOut(a, ok))
    /\ UNCHANGED <<mesh, geom, remesher, dd, seq, par, cache>>

ApplyMetricGradation ==
    /\ call = Idle
    /\ \E t \in MeshMetricTypes : \E a \in MetricArgs(t), ok \in BOOLEAN :
         Returned("apply_metric_gradation", a, CheckedMetricOut(a, ok))
    /\ UNCHANGED <<mesh, geom, remesher, dd, seq, par, cache>>

VertexDataToElemDataMetric ==
    /\ call = Idle
    /\ \E t \in MeshMetricTypes : \E a \in MetricArgs(t), ok \in BOOLEAN :
         Returned("vertex_data_to_elem_data_metric", a,
                  CheckedMetricOut(a, ok))
    /\ UNCHANGED <<mesh, geom, remesher, dd, seq, par, cache>>

\* elem_data_to_vertex_data_metric(mesh, m): the rows are checked against
\* n_elems, and then (0..n_verts) metrics are read
ElemDataToVertexDataMetricOut(a, ok) ==
    LET chk == DimCheck(a.rows, a.cols, mesh.ne, MetricN(a.t))
        rd == ReadMetrics(a.rows, a.cols, MetricN(a.t), mesh.nv)
    IN  IF chk # "ok" THEN ValueError(chk)
        ELSE IF rd.panic
        THEN Out("panic", "index out of range", rd.n, 0, FALSE)
        ELSE AfterEngine(ok, rd.n, 0)

ElemDataToVertexDataMetric ==
    /\ call = Idle
    /\ \E t \in MeshMetricTypes : \E a \in MetricArgs(t), ok \in BOOLEAN :
         Returned("elem_data_to_vertex_data_metric", a,
                  ElemDataToVertexDataMetricOut(a, ok))
    /\ UNCHANGED <<mesh, geom, remesher, dd, seq, par, cache>>

\* metric_info(mesh, m): no check of the shape of m; the result is a tuple
\* of four numbers, not a PyResult
MetricInfoOut(a) ==
    LET rd == ReadMetrics(a.rows, a.cols, MetricN(a.t), mesh.nv)
    IN  IF rd.panic THEN Out("panic", "index out of range", rd.n, 0, FALSE)
        ELSE Out("ok", "", rd.n, 0, TRUE)

MetricInfo ==
    /\ call = Idle
    /\ \E t \in MeshMetricTypes : \E a \in MetricArgs(t) :
         Returned("metric_info", a, MetricInfoOut(a))
    /\ UNCHANGED <<mesh, geom, remesher, dd, seq, par, cache>>

\* Mesh33::curvature_metric(geom, r_h, beta, implied_metric, step, h_min):
\* implied_metric (f.given) is read as n_verts AnisoMetric3d without a check
\* of its shape, then the geometry is unwrapped and the engine called
CurvatureMetricOut(f, ok) ==
    LET fr == ReadMetrics(f.rows, f.cols, MetricN("Aniso3d"), mesh.nv)
    IN  IF f.given /\ fr.panic
        THEN Out("panic", "index out of range", 0, fr.n, FALSE)
        ELSE IF geom # "some"
        THEN Out("panic", "unwrap on None", 0, IF f.given THEN fr.n ELSE 0,
                 FALSE)
        ELSE AfterEngine(ok, 0, IF f.given THEN fr.n ELSE 0)

CurvatureMetric ==
    /\ call = Idle
    /\ mesh.kind = "Mesh33"
    /\ geom # "none"
    /\ \E f \in SecondArgs(MetricN("Aniso3d")), ok \in BOOLEAN :
         Returned("curvature_metric", [t |-> "Aniso3d", f |-> f],
                  CurvatureMetricOut(f, ok))
    /\ UNCHANGED <<mesh, geom, remesher, dd, seq, par, cache>>

\* the h_n, h_n_tags arguments of curvature_metric in mesh.rs: given or
\* omitted, and contiguous in memory or not (as_slice()? fails on a
\* non-contiguous array)
TagSizeArgs ==
    [h_n : BOOLEAN, h_n_contiguous : BOOLEAN,
     h_n_tags : BOOLEAN, h_n_tags_contiguous : BOOLEAN]

\* a curvature_metric that ignores h_n when h_n_tags is not given
MeshCurvatureMetricOutNoTags(a, ok) ==
    IF a.h_n /\ ~a.h_n_contiguous
    THEN Out("type_error", "not contiguous", 0, 0, FALSE)
    ELSE IF a.h_n /\ a.h_n_tags /\ ~a.h_n_tags_contiguous
    THEN Out("type_error", "not contiguous", 0, 0, FALSE)
    ELSE IF ok THEN Out("ok", "", 0, 0, TRUE)
    ELSE Out("runtime_error", "engine error", 0, 0, TRUE)

\* Mesh33::curvature_metric and Mesh22::curvature_metric of mesh.rs
\* (geom, r_h, beta, t, h_min, [h_max,] h_n, h_n_tags); ok is the answer of
\* the engine when it is called
MeshCurvatureMetricOut(a, ok) ==
    IF a.h_n /\ ~a.h_n_contiguous
    THEN Out("type_error", "not contiguous", 0, 0, FALSE)
    ELSE IF a.h_n /\ ~a.h_n_tags
    THEN Out("runtime_error", "h_n_tags not given", 0, 0, FALSE)
    ELSE IF a.h_n /\ ~a.h_n_tags_contiguous
    THEN Out("type_error", "not contiguous", 0, 0, FALSE)
    ELSE IF ok THEN Out("ok", "", 0, 0, TRUE)
    ELSE Out("runtime_error", "engine error", 0, 0, TRUE)

MeshCurvatureMetric ==
    /\ call = Idle
    /\ mesh.kind \in {"Mesh33", "Mesh22"}
    /\ geom # "none"
    /\ \E a \in TagSizeArgs, ok \in BOOLEAN :
         Returned("mesh_curvature_metric", a, MeshCurvatureMetricOut(a, ok))
    /\ UNCHANGED <<mesh, geom, remesher, dd, seq, par, cache>>

\* the field transfers of a mesh (mesh.rs): elem_data_to_vertex_data,
\* vertex_data_to_elem_data, interpolate_linear, interpolate_nearest
TransferOps == {"elem_data_to_vertex_data", "vertex_data_to_elem_data",
                "interpolate_linear", "interpolate_nearest"}

\* the check of the rows of arr, then the engine call, whose Result is
\* turned into a runtime error by elem_data_to_vertex_data and unwrapped by
\* the three others
MeshTransferOut(op, rows, ok) ==
    LET n == IF op = "elem_data_to_vertex_data" THEN mesh.ne ELSE mesh.nv
    IN  IF rows # n THEN ValueError("Invalid dimension 0")
        ELSE IF ok THEN Out("ok", "", rows, 0, TRUE)
        ELSE IF op = "elem_data_to_vertex_data"
        THEN Out("runtime_error", "engine error", rows, 0, TRUE)
        ELSE Out("panic", "unwrap on Err", rows, 0, TRUE)

MeshTransfer ==
    /\ call = Idle
    /\ mesh # NoMesh
    /\ \E op \in TransferOps, rows \in MetricRows, ok \in BOOLEAN :
         Returned(op, [rows |-> rows, ok |-> ok],
                  MeshTransferOut(op, rows, ok))
    /\ UNCHANGED <<mesh, geom, remesher, dd, seq, par, cache>>

-----------------------------------------------------------------------------
(* create_parallel_remesher! : the constructor and the entry and exit of    *)
(* remesh                                                                  *)

\* largest n_partitions given to the constructor
MaxParts == 2

PartitionTypes == {"scotch", "metis_kway", "metis_recursive", "hilbert"}
\* the strings tried as partition_type
PartitionChoices == PartitionTypes \cup {"Hilbert", ""}
\* the descriptions of a failed partitioning (Err(res), res.to_string())
PartitionErrors == {"too many partitions", "partitioner failed"}

\* the arguments of the constructor; err is what ParallelRemesher::new
\* answers when it is called: "" for Ok, a description for Err
ParNewArgs ==
    [t : MeshMetricTypes, ptype : PartitionChoices, np : 1..MaxParts,
     err : {""} \cup PartitionErrors]

\* a constructor that unwraps nothing and builds its object in every case
ParNewOutAlways(a) ==
    [out |-> Out("ok", a.err, 0, 0, TRUE),
     obj |-> [kind |-> a.t, nv |-> mesh.nv, np |-> a.np]]

\* a constructor that partitions along the Hilbert curve when it does not
\* know the partition type
ParNewOutLenient(a) ==
    IF a.err # ""
    THEN [out |-> Out("runtime_error", a.err, 0, 0, TRUE), obj |-> NoObj]
    ELSE [out |-> Out("ok", "", 0, 0, TRUE),
          obj |-> [kind |-> a.t, nv |-> mesh.nv, np |-> a.np]]

\* ParallelRemesher*::new(mesh, partition_type, n_partitions):
\* out is the result, obj the object built (NoObj when none is)
ParNewOut(a) ==
    IF a.ptype \notin PartitionTypes
    THEN [out |-> ValueError("Invalid partition type"), obj |-> NoObj]
    ELSE IF a.err # ""
    THEN [out |-> Out("runtime_error", a.err, 0, 0, TRUE), obj |-> NoObj]
    ELSE [out |-> Out("ok", "", 0, 0, TRUE),
          obj |-> [kind |-> a.t, nv |-> mesh.nv, np |-> a.np]]

ParNew ==
    /\ call = Idle
    /\ dd = NoObj
    /\ \E a \in ParNewArgs :
         LET r == ParNewOut(a)
         IN  /\ Returned("ParNew", a, r.out)
             /\ dd' = r.obj
    /\ UNCHANGED <<mesh, geom, remesher, seq, par, cache>>

\* the strings tried as smooth_type ("None": the argument is omitted)
SmoothChoices == {"None", "laplacian", "laplacian2", "nlopt", "avro",
                  "Laplacian"}

\* the smoothing variant ParallelRemesher.remesh selects; "unreachable" is
\* the unreachable!() of the nlopt branch
ParSmoothType(st) ==
    LET s == IF st = "None" THEN "laplacian" ELSE st
    IN  IF s = "laplacian" THEN "Laplacian"
        ELSE IF s = "laplacian2" THEN "Laplacian2"
        ELSE IF s = "nlopt" THEN "unreachable"
        ELSE "Avro"

\* ParallelRemesher.remesh up to the call of the engine: the check of the
\* shape of m against dd.n_verts() and N, the reading of m in chunks of N,
\* the choice of the smoothing variant.  res "ok" means the engine is called.
ParRemeshEntry(a) ==
    LET chk == DimCheck(a.rows, a.cols, dd.nv, MetricN(dd.kind))
    IN  IF chk # "ok" THEN ValueError(chk)
        ELSE IF ParSmoothType(a.smooth_type) = "unreachable"
        THEN Out("panic", "unreachable", a.rows, 0, FALSE)
        ELSE Out("ok", "", a.rows, 0, TRUE)

\* ParallelRemesher.remesh after the engine has answered: failed = 0 for
\* Ok((mesh, info)), the number of the failing partition for an Err, which
\* the closure given to allow_threads unwraps
ParRemeshExit(entry, failed) ==
    IF failed = 0 THEN Out("ok", "", entry.reads, 0, TRUE)
    ELSE Out("panic", "unwrap on Err", entry.reads, 0, TRUE)

\* the arguments of remesh; failed is not one of them: it records the
\* partition whose remesh failed in the engine (0: none, or not yet known)
ParRemeshArgs ==
    [rows : MetricRows, cols : ColChoices(MetricN(dd.kind)),
     smooth_type : SmoothChoices, failed : {0}]

\* ParallelRemesher.remesh as one step, the engine's answer being an input
ParRemesh ==
    /\ call = Idle
    /\ dd # NoObj
    /\ geom # "none"
    /\ \E a \in ParRemeshArgs, failed \in 0..dd.np :
         LET entry == ParRemeshEntry(a)
         IN  IF entry.res = "ok"
             THEN Returned("par_remesh", [a EXCEPT !.failed = failed],
                           ParRemeshExit(entry, failed))
             ELSE Returned("par_remesh", a, entry)
    /\ UNCHANGED <<mesh, geom, remesher, dd, seq, par, cache>>

-----------------------------------------------------------------------------
(* The binding calls, every engine call being one step *)

SeqIdle == [pc |-> "idle"]
ParIdle == [pc |-> "idle"]

InitApi ==
    /\ mesh = NoMesh
    /\ geom = "none"
    /\ remesher = NoObj
    /\ dd = NoObj
    /\ call = Idle
    /\ seq = SeqIdle
    /\ par = ParIdle
    /\ cache = NoCache

NextApi ==
    \/ MeshNew
    \/ Drop
    \/ GeomNew
    \/ GeomQuery
    \/ RemesherNew
    \/ HessianToMetric
    \/ ScaleMetric
    \/ SmoothMetric
    \/ ApplyMetricGradation
    \/ VertexDataToElemDataMetric
    \/ ElemDataToVertexDataMetric
    \/ MetricInfo
    \/ CurvatureMetric
    \/ MeshCurvatureMetric
    \/ MeshTransfer
    \/ ParNew
    \/ ParRemesh
    \/ Return

SpecApi == InitApi /\ [][NextApi]_vars

-----------------------------------------------------------------------------
(* Properties of the binding calls *)

\* the arrays of a mesh constructor call do not have the shapes of the class
BadMeshShape(a) ==
    \/ a.cc # Dim(a.kind)
    \/ a.ec # ElemVerts(a.kind)
    \/ a.et # a.er
    \/ a.fc # FaceVerts(a.kind)
    \/ a.ft # a.fr

\* no object is other than it was when the call was made
ObjectsUntouched ==
    /\ mesh = call.pre.mesh
    /\ geom = call.pre.geom
    /\ remesher = call.pre.remesher
    /\ dd = call.pre.dd

\* the call was rejected with a value error before anything was read,
\* computed or changed
RejectedAtOnce ==
    /\ call.res = "value_error"
    /\ call.reads = 0
    /\ call.freads = 0
    /\ ~call.engine
    /\ ObjectsUntouched

(* C1: a mesh constructor given coords without dim columns, elems without
   N_VERTS columns, etags of another length than the rows of elems, faces
   without the face's N_VERTS columns, or ftags of another length than the
   rows of faces fails with a value error and creates no mesh object. *)
C1_MeshNewRejectsBadShapes ==
    (call.op = "MeshNew" /\ BadMeshShape(call.a))
        => (call.res = "value_error" /\ mesh = NoMesh)

\* a constructor call whose only fault is the length of etags was rejected
C1_Witness ==
    /\ call.op = "MeshNew"
    /\ call.a.cc = Dim(call.a.kind)
    /\ call.a.ec = ElemVerts(call.a.kind)
    /\ call.a.fc = FaceVerts(call.a.kind)
    /\ call.a.ft = call.a.fr
    /\ call.a.et # call.a.er
    /\ call.res = "value_error"
    /\ mesh = NoMesh

\* the operations that take the per-vertex metric array m and check it
CheckedMetricOps ==
    {"RemesherNew", "hessian_to_metric", "scale_metric", "smooth_metric",
     "apply_metric_gradation", "vertex_data_to_elem_data_metric"}

\* the shape of m is not (number of vertices, N)
BadMetricShape ==
    IF call.op = "par_remesh"
    THEN \/ call.a.rows # call.pre.dd.nv
         \/ call.a.cols # MetricN(call.pre.dd.kind)
    ELSE \/ call.a.rows # call.pre.mesh.nv
         \/ call.a.cols # MetricN(call.a.t)

(* C2: the Remesher constructor, hessian_to_metric, scale_metric,
   smooth_metric, apply_metric_gradation, vertex_data_to_elem_data_metric
   and ParallelRemesher.remesh return a value error, with no metric read, no
   engine call and no object changed, when m does not have as many rows as
   the mesh has vertices or does not have N columns. *)
C2_MetricShapeRejected ==
    (call.op \in CheckedMetricOps \cup {"par_remesh"} /\ BadMetricShape)
        => RejectedAtOnce

\* a Remesher constructor call with the right rows and the wrong columns
\* was rejected and the geometry was not taken
C2_Witness ==
    /\ call.op = "RemesherNew"
    /\ call.a.rows = call.pre.mesh.nv
    /\ call.a.rows > 0
    /\ call.a.cols # MetricN(call.a.t)
    /\ call.res = "value_error"
    /\ call.reads = 0
    /\ geom = "some"

\* the shape of the second metric array is not (number of vertices, N)
BadSecondShape ==
    /\ call.a.f.given
    /\ \/ call.a.f.rows # call.pre.mesh.nv
       \/ call.a.f.cols # MetricN(call.a.t)

(* C3: metric_info rejects an m whose shape is not (vertices, N),
   scale_metric a fixed_m whose shape is not (vertices, N) and
   curvature_metric an implied_metric whose shape is not (vertices, 6), each
   before any metric is read from that array. *)
C3_OtherMetricArraysRejected ==
    /\ (call.op = "metric_info" /\ BadMetricShape)
           => (call.res = "value_error" /\ call.reads = 0)
    /\ (call.op = "scale_metric" /\ ~BadMetricShape /\ BadSecondShape)
           => (call.res = "value_error" /\ call.freads = 0)
    /\ (call.op = "curvature_metric" /\ BadSecondShape)
           => (call.res = "value_error" /\ call.freads = 0)

-----------------------------------------------------------------------------
(* create_remesher!::remesh and ::check, and the sequential engine they     *)
(* call (Remesher::remesh, Remesher::check of the tucanos crate, modelled   *)
(* from section 4.4 of the design document)                                *)

\* largest num_iter given to remesh
MaxIter == 2
\* largest split_max_iter, collapse_max_iter, swap_max_iter, smooth_iter
MaxPass == 1
\* largest number of candidate operations tried in one pass
MaxCand == 1
\* largest number of elements of the working mesh
MaxElems == 2

\* a choice of the smoothing variant with an nlopt smoother behind "nlopt"
SeqSmoothTypeNlopt(st) ==
    LET s == IF st = "None" THEN "laplacian" ELSE st
    IN  IF s = "laplacian" THEN "Laplacian2"
        ELSE IF s = "nlopt" THEN "NLOpt"
        ELSE "Avro"

\* the smoothing variant Remesher.remesh selects; "unreachable" is the
\* unreachable!() of the nlopt branch
SeqSmoothType(st) ==
    LET s == IF st = "None" THEN "laplacian" ELSE st
    IN  IF s = "laplacian" THEN "Laplacian2"
        ELSE IF s = "nlopt" THEN "unreachable"
        ELSE "Avro"

\* Option<T>: None is the omitted argument
None == [some |-> FALSE]
Some(x) == [some |-> TRUE, v |-> x]
Option(S) == {None} \cup {Some(x) : x \in S}

\* x.unwrap_or(default)
UnwrapOr(x, default) == IF x.some THEN x.v ELSE default

\* the iteration counts tried: none, one, the largest
IterChoices == {0, 1, MaxIter}
\* the pass counts tried: none, the largest
PassChoices == {0, MaxPass}

\* the values x.unwrap_or(default_params.x) can take: x is a value of S or
\* omitted, and the default of RemesherParams::default() is a value of S
Resolved(S) == {UnwrapOr(x, d) : x \in Option(S), d \in S}

\* let params = RemesherParams { num_iter: num_iter.unwrap_or(..), .. }:
\* the records remesh can hand to the engine, the smoothing variant apart
ParamChoices ==
    [num_iter : Resolved(IterChoices),
     two_steps : Resolved(BOOLEAN),
     split_max_iter : Resolved(PassChoices),
     collapse_max_iter : Resolved(PassChoices),
     swap_max_iter : Resolved(PassChoices),
     smooth_iter : Resolved(PassChoices),
     smooth_type : {"any"}]

NoParams ==
    [num_iter |-> 0, two_steps |-> FALSE, split_max_iter |-> 0,
     collapse_max_iter |-> 0, swap_max_iter |-> 0, smooth_iter |-> 0,
     smooth_type |-> "none"]

\* the steps of one run of the sub-pipeline, in order
Steps == <<"split", "collapse", "swap", "smooth">>
StepSet == {Steps[i] : i \in 1..Len(Steps)}
StepIndex(s) == CHOOSE i \in 1..Len(Steps) : Steps[i] = s

\* the largest number of passes of step s under the parameters p
StepMax(p, s) ==
    CASE s = "split" -> p.split_max_iter
      [] s = "collapse" -> p.collapse_max_iter
      [] s = "swap" -> p.swap_max_iter
      [] s = "smooth" -> p.smooth_iter

\* the working mesh: n elements, bad of them of non-positive volume, and
\* whether the face tags satisfy the tag invariant
MeshValid(wm) == wm.bad = 0 /\ wm.tags

\* a candidate cavity: rm elements are replaced by add new ones, bad of
\* which have a non-positive volume; tags: the new faces keep the tag
\* invariant
Cavities(kind, n) ==
    LET sizes == CASE kind = "split" -> {<<r, 2 * r>> : r \in 1..2}
                   [] kind = "collapse" -> {<<r, r - 1>> : r \in 2..3}
                   [] kind = "swap" -> {<<2, 2>>}
                   [] kind = "smooth" -> {<<r, r>> : r \in 1..n}
    IN  {c \in [rm : 1..n, add : 1..MaxElems, bad : 0..MaxElems,
                tags : BOOLEAN] :
            /\ <<c.rm, c.add>> \in sizes
            /\ c.bad <= c.add
            /\ n - c.rm + c.add <= MaxElems}

\* a commit rule that validates nothing
CanCommitAlways(c) == TRUE

\* a candidate is committed only if every element of the new cavity passes
\* the validity check
CanCommit(c) == c.bad = 0 /\ c.tags

\* the working mesh after the candidate c was committed
Commit(wm, c) ==
    [n |-> wm.n - c.rm + c.add,
     bad |-> Min(wm.n - c.rm + c.add, wm.bad + c.bad),
     tags |-> wm.tags /\ c.tags]

\* Remesher.remesh(num_iter, ..., smooth_type, max_angle), up to its call
\* of the engine; the call returns when the engine has (RemeshEnd)
RemeshBegin ==
    /\ call = Idle
    /\ remesher # NoObj
    /\ seq.pc = "idle"
    /\ \E p0 \in ParamChoices, s \in SmoothChoices :
         LET st == SeqSmoothType(s)
             p == [p0 EXCEPT !.smooth_type = st]
         IN  IF st = "unreachable"
             THEN /\ Returned("remesh", [smooth_type |-> s],
                              Out("panic", "unreachable", 0, 0, FALSE))
                  /\ seq' = seq
             ELSE /\ Returned("remesh", [smooth_type |-> s],
                              Out("running", "", 0, 0, TRUE))
                  /\ seq' = [seq EXCEPT
                               !.pc = IF p.num_iter = 0 THEN "done"
                                      ELSE Steps[1],
                               !.p = p, !.iter = 0, !.rep = 1, !.pass = 0,
                               !.cand = 0, !.com = FALSE, !.rej = FALSE]
    /\ UNCHANGED <<mesh, geom, remesher, dd, par, cache>>

\* one candidate operation of the current pass: proposed, validated, and
\* committed or rejected
Candidate ==
    /\ seq.pc \in StepSet
    /\ seq.pass < StepMax(seq.p, seq.pc)
    /\ seq.cand < MaxCand
    /\ \E c \in Cavities(seq.pc, seq.wm.n) :
         IF CanCommit(c)
         THEN seq' = [seq EXCEPT !.wm = Commit(seq.wm, c),
                                 !.cand = seq.cand + 1, !.com = TRUE]
         ELSE seq' = [seq EXCEPT !.cand = seq.cand + 1, !.rej = TRUE]
    /\ UNCHANGED <<mesh, geom, remesher, dd, call, par, cache>>

\* the current pass is over
PassEnd ==
    /\ seq.pc \in StepSet
    /\ seq.pass < StepMax(seq.p, seq.pc)
    /\ seq' = [seq EXCEPT !.pass = seq.pass + 1, !.cand = 0]
    /\ UNCHANGED <<mesh, geom, remesher, dd, call, par, cache>>

\* an outer loop that stops as soon as a run of the sub-pipeline is over
IterDoneEarly(s) == TRUE

\* the outer loop is over after num_iter iterations
IterDone(s) == s.iter + 1 = s.p.num_iter

\* the engine state after the current step: the next step, the second run
\* of the sub-pipeline (two_steps), the next iteration, or the end
AfterStep(s) ==
    IF StepIndex(s.pc) < Len(Steps)
    THEN [s EXCEPT !.pc = Steps[StepIndex(s.pc) + 1], !.pass = 0, !.cand = 0]
    ELSE IF s.p.two_steps /\ s.rep = 1
    THEN [s EXCEPT !.pc = Steps[1], !.rep = 2, !.pass = 0, !.cand = 0]
    ELSE [s EXCEPT !.pc = IF IterDone(s) THEN "done" ELSE Steps[1],
                   !.iter = s.iter + 1, !.rep = 1, !.pass = 0, !.cand = 0]

\* the current step is over: its passes are used up, or (split, collapse,
\* swap) a pass has begun with no candidate left
StepEnd ==
    /\ seq.pc \in StepSet
    /\ \/ seq.pass = StepMax(seq.p, seq.pc)
       \/ seq.pc # "smooth" /\ seq.cand = 0
    /\ seq' = AfterStep(seq)
    /\ UNCHANGED <<mesh, geom, remesher, dd, call, par, cache>>

\* the engine has returned: self.remesher.remesh(params) is over and
\* remesh returns ()
RemeshEnd ==
    /\ seq.pc = "done"
    /\ call.op = "remesh"
    /\ call.res = "running"
    /\ call' = [call EXCEPT !.res = "ok"]
    /\ seq' = [seq EXCEPT !.pc = "idle", !.p = NoParams, !.iter = 0,
                          !.rep = 1]
    /\ UNCHANGED <<mesh, geom, remesher, dd, par, cache>>

\* Remesher.check(): the engine's check, an Err becoming a PyRuntimeError
CheckOut ==
    IF MeshValid(seq.wm) THEN Out("ok", "", 0, 0, TRUE)
    ELSE Out("runtime_error", "invalid mesh", 0, 0, TRUE)

Check ==
    /\ call = Idle
    /\ remesher # NoObj
    /\ Returned("check", [n |-> seq.wm.n], CheckOut)
    /\ UNCHANGED <<mesh, geom, remesher, dd, seq, par, cache>>

\* the caller takes the result of a call that is over
ReturnSeq ==
    /\ call # Idle
    /\ call.res # "running"
    /\ call' = Idle
    /\ UNCHANGED <<mesh, geom, remesher, dd, seq, par, cache>>

\* a Remesher built on a mesh on which check() passes
InitSeq ==
    /\ mesh = [kind |-> "Mesh22", nv |-> MaxVerts, ne |-> 1, nf |-> 0]
    /\ geom = "taken"
    /\ remesher = [kind |-> "Iso2d", nv |-> MaxVerts]
    /\ dd = NoObj
    /\ call = Idle
    /\ \E n \in 1..2 :
         seq = [pc |-> "idle", wm |-> [n |-> n, bad |-> 0, tags |-> TRUE],
                p |-> NoParams, iter |-> 0, rep |-> 1, pass |-> 0,
                cand |-> 0, com |-> FALSE, rej |-> FALSE]
    /\ par = ParIdle
    /\ cache = NoCache

EngineSeq == Candidate \/ PassEnd \/ StepEnd

NextSeq ==
    \/ RemeshBegin
    \/ Candidate
    \/ PassEnd
    \/ StepEnd
    \/ RemeshEnd
    \/ Check
    \/ ReturnSeq

SpecSeq == InitSeq /\ [][NextSeq]_vars

-----------------------------------------------------------------------------
(* Properties of the sequential remesher *)

(* C4: the working mesh of the sequential remesher, valid at the start, is
   valid after every candidate split, collapse, swap and smooth operation,
   committed or rejected, and check() passes whenever it is called. *)
C4_RemesherMeshStaysValid ==
    /\ MeshValid(seq.wm)
    /\ call.op = "check" => call.res = "ok"

\* check() passed after a remesh that committed a candidate and rejected
\* another
C4_Witness ==
    /\ call.op = "check"
    /\ call.res = "ok"
    /\ seq.com
    /\ seq.rej

\* what is left to do: iterations, runs of the sub-pipeline, steps, passes
\* of the step, candidates of the pass
Rank(s) ==
    IF s.pc \in StepSet
    THEN <<s.p.num_iter - s.iter,
           (IF s.p.two_steps THEN 2 ELSE 1) - s.rep,
           Len(Steps) - StepIndex(s.pc),
           StepMax(s.p, s.pc) - s.pass,
           MaxCand - s.cand>>
    ELSE <<0, 0, 0, 0, 0>>

\* r1 comes before r2 in the lexicographic order
RankLess(r1, r2) ==
    \E i \in 1..Len(r2) :
        /\ r1[i] < r2[i]
        /\ \A j \in 1..(i - 1) : r1[j] = r2[j]

RankNat(r) == \A i \in 1..Len(r) : r[i] >= 0

(* C5: remesh terminates (every step of the engine lowers a rank that never
   goes below zero, and the engine is never stuck before the end); it ends
   after exactly num_iter outer iterations; the split, collapse and swap
   steps run at most split_max_iter, collapse_max_iter and swap_max_iter
   passes and the smooth step runs smooth_iter passes. *)
C5_RemeshTerminatesAfterNumIter ==
    /\ [](/\ seq.pc = "done" => seq.iter = seq.p.num_iter
          /\ seq.pc \in StepSet =>
                /\ seq.iter < seq.p.num_iter
                /\ seq.pass <= StepMax(seq.p, seq.pc)
                /\ RankNat(Rank(seq))
                /\ ENABLED EngineSeq)
    /\ [][/\ (seq.pc \in StepSet /\ seq' # seq)
                => RankLess(Rank(seq'), Rank(seq))
          /\ (seq.pc = "smooth" /\ seq' # seq /\ seq'.pc # "smooth")
                => seq.pass = seq.p.smooth_iter]_vars

\* a remesh of two iterations, with one smoothing pass in each, is over
C5_Witness ==
    /\ seq.pc = "done"
    /\ seq.p.num_iter = 2
    /\ seq.iter = 2
    /\ seq.p.smooth_iter = 1
    /\ seq.com

-----------------------------------------------------------------------------
(* The parameters of remesh: what Remesher.remesh and                      *)
(* ParallelRemesher.remesh make of their optional arguments and hand to    *)
(* the engine, the engine call being one step.                             *)

\* the optional arguments of Remesher.remesh, smooth_type apart
ParamSeq ==
    <<"num_iter", "two_steps", "split_max_iter", "split_min_l_rel",
      "split_min_l_abs", "split_min_q_rel", "split_min_q_abs",
      "collapse_max_iter", "collapse_max_l_rel", "collapse_max_l_abs",
      "collapse_min_q_rel", "collapse_min_q_abs", "swap_max_iter",
      "swap_max_l_rel", "swap_max_l_abs", "swap_min_l_rel",
      "swap_min_l_abs", "smooth_iter", "max_angle",
      "smooth_relax", "smooth_keep_local_minima", "debug",
      "n_layers", "n_levels", "min_verts">>

\* the arguments of Remesher.remesh (lib.rs)
SeqNames == {ParamSeq[i] : i \in 1..19}
\* those ParallelRemesher.remesh adds for the engine's RemesherParams
ParOnlyNames == {"smooth_relax", "smooth_keep_local_minima", "debug"}
\* and for its ParallelRemeshingParams
DdNames == {"n_layers", "n_levels", "min_verts"}
ParNames == SeqNames \cup ParOnlyNames \cup DdNames

\* the arguments declared Option<u32> or Option<Idx>: a negative number is
\* refused when the arguments are converted, before the body runs
U32Names == {"num_iter", "split_max_iter", "collapse_max_iter",
             "swap_max_iter", "smooth_iter", "n_layers", "n_levels",
             "min_verts"}

\* the values tried for an argument
ArgVals == {-1, 0, 1}

\* default_params = RemesherParams::default(): a value of its own for
\* every field
Default(n) == 100 + (CHOOSE i \in 1..Len(ParamSeq) : ParamSeq[i] = n)

\* the argument lists tried: at most two arguments are given
Args(names) ==
    {[n \in names |-> IF n = p THEN x ELSE IF n = q THEN y ELSE None] :
        p \in names, q \in names,
        x \in Option(ArgVals), y \in Option(ArgVals)}

Converted(a) ==
    \A n \in DOMAIN a \cap U32Names : a[n].some => a[n].v >= 0

\* a field that takes the argument of the field written above it
ResolveCrossed(a, n) ==
    IF n = "swap_max_l_abs"
    THEN UnwrapOr(a["swap_max_l_rel"], Default(n))
    ELSE UnwrapOr(a[n], Default(n))

\* <n>.unwrap_or(default_params.<n>)
Resolve(a, n) == UnwrapOr(a[n], Default(n))

\* let params = RemesherParams { .. } of Remesher.remesh
RemesherParams(a, st) ==
    [num_iter |-> Resolve(a, "num_iter"),
     two_steps |-> Resolve(a, "two_steps"),
     split_max_iter |-> Resolve(a, "split_max_iter"),
     split_min_l_rel |-> Resolve(a, "split_min_l_rel"),
     split_min_l_abs |-> Resolve(a, "split_min_l_abs"),
     split_min_q_rel |-> Resolve(a, "split_min_q_rel"),
     split_min_q_abs |-> Resolve(a, "split_min_q_abs"),
     collapse_max_iter |-> Resolve(a, "collapse_max_iter"),
     collapse_max_l_rel |-> Resolve(a, "collapse_max_l_rel"),
     collapse_max_l_abs |-> Resolve(a, "collapse_max_l_abs"),
     collapse_min_q_rel |-> Resolve(a, "collapse_min_q_rel"),
     collapse_min_q_abs |-> Resolve(a, "collapse_min_q_abs"),
     swap_max_iter |-> Resolve(a, "swap_max_iter"),
     swap_max_l_rel |-> Resolve(a, "swap_max_l_rel"),
     swap_max_l_abs |-> Resolve(a, "swap_max_l_abs"),
     swap_min_l_rel |-> Resolve(a, "swap_min_l_rel"),
     swap_min_l_abs |-> Resolve(a, "swap_min_l_abs"),
     smooth_iter |-> Resolve(a, "smooth_iter"),
     smooth_type |-> st,
     max_angle |-> Resolve(a, "max_angle")]

\* let params = RemesherParams { .. } of ParallelRemesher.remesh
ParRemesherParams(a, st) ==
    [num_iter |-> Resolve(a, "num_iter"),
     two_steps |-> Resolve(a, "two_steps"),
     split_max_iter |-> Resolve(a, "split_max_iter"),
     split_min_l_rel |-> Resolve(a, "split_min_l_rel"),
     split_min_l_abs |-> Resolve(a, "split_min_l_abs"),
     split_min_q_rel |-> Resolve(a, "split_min_q_rel"),
     split_min_q_abs |-> Resolve(a, "split_min_q_abs"),
     collapse_max_iter |-> Resolve(a, "collapse_max_iter"),
     collapse_max_l_rel |-> Resolve(a, "collapse_max_l_rel"),
     collapse_max_l_abs |-> Resolve(a, "collapse_max_l_abs"),
     collapse_min_q_rel |-> Resolve(a, "collapse_min_q_rel"),
     collapse_min_q_abs |-> Resolve(a, "collapse_min_q_abs"),
     swap_max_iter |-> Resolve(a, "swap_max_iter"),
     swap_max_l_rel |-> Resolve(a, "swap_max_l_rel"),
     swap_max_l_abs |-> Resolve(a, "swap_max_l_abs"),
     swap_min_l_rel |-> Resolve(a, "swap_min_l_rel"),
     swap_min_l_abs |-> Resolve(a, "swap_min_l_abs"),
     smooth_iter |-> Resolve(a, "smooth_iter"),
     smooth_type |-> st,
     smooth_relax |-> Resolve(a, "smooth_relax"),
     smooth_keep_local_minima |-> Resolve(a, "smooth_keep_local_minima"),
     max_angle |-> Resolve(a, "max_angle"),
     debug |-> Resolve(a, "debug")]

\* ParallelRemeshingParams::new(n_layers.unwrap_or(2),
\* n_levels.unwrap_or(1), min_verts.unwrap_or(0))
DdParams(a) ==
    [n_layers |-> UnwrapOr(a.n_layers, 2),
     n_levels |-> UnwrapOr(a.n_levels, 1),
     min_verts |-> UnwrapOr(a.min_verts, 0)]

\* Remesher.remesh as one step; it returns nothing, whatever the engine did
RemeshCall ==
    /\ call = Idle
    /\ remesher # NoObj
    /\ \E args \in Args(SeqNames), s \in SmoothChoices :
         LET st == SeqSmoothType(s)
             a == [args |-> args, smooth_type |-> s, handed |-> None,
                   dd_params |-> None]
         IN  IF ~Converted(args)
             THEN Returned("remesh", a,
                           Out("overflow_error", "", 0, 0, FALSE))
             ELSE IF st = "unreachable"
             THEN Returned("remesh", a,
                           Out("panic", "unreachable", 0, 0, FALSE))
             ELSE Returned("remesh",
                      [a EXCEPT !.handed = Some(RemesherParams(args, st))],
                      Out("ok", "", 0, 0, TRUE))
    /\ UNCHANGED <<mesh, geom, remesher, dd, seq, par, cache>>

\* ParallelRemesher.remesh as one step, the engine answering Ok
ParRemeshCall ==
    /\ call = Idle
    /\ dd # NoObj
    /\ geom # "none"
    /\ \E sh \in ParRemeshArgs, args \in Args(ParNames) :
         LET entry == ParRemeshEntry(sh)
             a == [args |-> args, smooth_type |-> sh.smooth_type,
                   handed |-> None, dd_params |-> None]
         IN  IF ~Converted(args)
             THEN Returned("par_remesh", a,
                           Out("overflow_error", "", 0, 0, FALSE))
             ELSE IF entry.res # "ok"
             THEN Returned("par_remesh", a, entry)
             ELSE Returned("par_remesh",
                      [a EXCEPT
                         !.handed = Some(ParRemesherParams(args,
                                       ParSmoothType(sh.smooth_type))),
                         !.dd_params = Some(DdParams(args))],
                      ParRemeshExit(entry, 0))
    /\ UNCHANGED <<mesh, geom, remesher, dd, seq, par, cache>>

\* a mesh, a Remesher and a ParallelRemesher built from it
InitParams ==
    /\ mesh = [kind |-> "Mesh22", nv |-> 1, ne |-> 1, nf |-> 0]
    /\ geom = "some"
    /\ remesher = [kind |-> "Iso2d", nv |-> 1]
    /\ dd = [kind |-> "Iso2d", nv |-> 1, np |-> 1]
    /\ call = Idle
    /\ seq = SeqIdle
    /\ par = ParIdle
    /\ cache = NoCache

NextParams ==
    \/ RemeshCall
    \/ ParRemeshCall
    \/ Return

SpecParams == InitParams /\ [][NextParams]_vars

RemeshOps == {"remesh", "par_remesh"}

\* C16: remesh never falls back to an optimization-based smoother: a
\* smooth_type that names no smoothing mode is not turned into the Avro or
\* nlopt smoother.
C16_NoSilentFallback ==
    (/\ call.op \in RemeshOps
     /\ call.a.handed.some
     /\ call.a.smooth_type \notin {"None", "laplacian", "laplacian2",
                                   "avro", "nlopt"})
        => call.a.handed.v.smooth_type \notin {"Avro", "NLOpt"}

\* C17: with smooth_type "nlopt", remesh fails whatever the other
\* arguments are, the sequential one and the parallel one, before the
\* engine is called: nothing is handed to it and no object has changed.
C17_NloptAlwaysFails ==
    (call.op \in RemeshOps /\ call.a.smooth_type = "nlopt")
        => /\ call.res \in {"panic", "value_error", "overflow_error"}
           /\ ~call.engine
           /\ ~call.a.handed.some
           /\ ObjectsUntouched

\* the parallel remesh, given a metric array of the right shape and two
\* other arguments, has failed on "nlopt"
C17_Witness ==
    /\ call.op = "par_remesh"
    /\ call.a.smooth_type = "nlopt"
    /\ call.res = "panic"
    /\ call.msg = "unreachable"
    /\ call.a.args.num_iter = Some(1)
    /\ call.a.args.n_levels = Some(1)

\* C18: a remesh whose num_iter, split_max_iter, collapse_max_iter or
\* swap_max_iter is zero or negative is refused with an error before the
\* engine is called.
C18_IterationCountsPositive ==
    (/\ call.op \in RemeshOps
     /\ \E n \in {"num_iter", "split_max_iter", "collapse_max_iter",
                  "swap_max_iter"} :
           call.a.args[n].some /\ call.a.args[n].v <= 0)
        => /\ call.res \in {"value_error", "overflow_error",
                            "runtime_error"}
           /\ ~call.engine

-----------------------------------------------------------------------------
(* Mesh22.check(): the binding returns what SimplexMesh::check answers,    *)
(* an Err as a runtime error.  The engine's check is not in this           *)
(* repository's sources; it is modelled from the documentation of check    *)
(* (the four conditions listed above it) on meshes of two triangles of     *)
(* the unit square.                                                        *)

\* the coordinates of the vertices 1..4 of the unit square
VertX == <<0, 1, 1, 0>>
VertY == <<0, 0, 1, 1>>

\* the two triangles on either side of the diagonal 1-3, in both
\* orientations
TriChoices == <<{<<1, 2, 3>>, <<1, 3, 2>>}, {<<1, 3, 4>>, <<1, 4, 3>>}>>
\* element and face tags
TagChoices == {1, 2}
\* the segments that can be given as tagged faces
EdgeChoices == {{1, 2}, {2, 3}, {3, 4}, {1, 4}, {1, 3}, {2, 4}}

\* twice the signed area of the triangle e
Area2(e) ==
    (VertX[e[2]] - VertX[e[1]]) * (VertY[e[3]] - VertY[e[1]])
      - (VertX[e[3]] - VertX[e[1]]) * (VertY[e[2]] - VertY[e[1]])

\* the faces (edges) of the triangle e
ElemFaces(e) == {{e[1], e[2]}, {e[2], e[3]}, {e[1], e[3]}}

\* the elements of the mesh m that have the face f
ElemsOf(m, f) == {i \in DOMAIN m.elems : f \in ElemFaces(m.elems[i])}

\* SimplexMesh::check: "ok", or the first condition that fails
EngineCheck(m) ==
    IF \E i \in DOMAIN m.elems : Area2(m.elems[i]) <= 0
    THEN "invalid volume"
    ELSE IF \E i \in DOMAIN m.elems : \E f \in ElemFaces(m.elems[i]) :
              Cardinality(ElemsOf(m, f)) = 1 /\ f \notin m.faces
    THEN "boundary face not tagged"
    ELSE IF \E f \in UNION {ElemFaces(m.elems[i]) : i \in DOMAIN m.elems} :
              /\ Cardinality(ElemsOf(m, f)) = 2
              /\ f \notin m.faces
              /\ \E i \in ElemsOf(m, f) : \E j \in ElemsOf(m, f) :
                    m.etags[i] # m.etags[j]
    THEN "internal face not tagged"
    ELSE IF \E f \in m.faces :
              \/ ElemsOf(m, f) = {}
              \/ /\ Cardinality(ElemsOf(m, f)) = 2
                 /\ \A i \in ElemsOf(m, f) : \A j \in ElemsOf(m, f) :
                       m.etags[i] = m.etags[j]
    THEN "tagged face that should not be"
    ELSE "ok"

\* a check that drops the engine's answer
MeshCheckOutIgnored(r) == Out("ok", "", 0, 0, TRUE)

\* self.mesh.check().map_err(|e| PyRuntimeError::new_err(e.to_string()))
MeshCheckOut(r) ==
    IF r = "ok" THEN Out("ok", "", 0, 0, TRUE)
    ELSE Out("runtime_error", r, 0, 0, TRUE)

MeshCheck ==
    /\ call = Idle
    /\ Returned("check", [ok |-> TRUE], MeshCheckOut(EngineCheck(mesh)))
    /\ UNCHANGED <<mesh, geom, remesher, dd, seq, par, cache>>

\* the caller builds the mesh again with the element i reversed (two of
\* its vertices exchanged); origin remembers whether the mesh reversed was
\* a valid one
Reverse ==
    /\ call = Idle
    /\ mesh.origin = "given"
    /\ \E i \in DOMAIN mesh.elems :
         LET e == mesh.elems[i]
         IN  mesh' = [mesh EXCEPT
                        !.elems[i] = <<e[1], e[3], e[2]>>,
                        !.origin = IF EngineCheck(mesh) = "ok"
                                   THEN "valid reversed"
                                   ELSE "reversed"]
    /\ UNCHANGED <<geom, remesher, dd, call, seq, par, cache>>

\* the meshes given to Mesh22(coords, elems, etags, faces, ftags)
InitCheck ==
    /\ \E e1 \in TriChoices[1], e2 \in TriChoices[2],
          t1 \in TagChoices, t2 \in TagChoices,
          fs \in SUBSET EdgeChoices :
         mesh = [kind |-> "Mesh22", nv |-> 4, ne |-> 2,
                 nf |-> Cardinality(fs), elems |-> <<e1, e2>>,
                 etags |-> <<t1, t2>>, faces |-> fs, origin |-> "given"]
    /\ geom = "none"
    /\ remesher = NoObj
    /\ dd = NoObj
    /\ call = Idle
    /\ seq = SeqIdle
    /\ par = ParIdle
    /\ cache = NoCache

NextCheck ==
    \/ MeshCheck
    \/ Reverse
    \/ Return

SpecCheck == InitCheck /\ [][NextCheck]_vars

\* C20: check() succeeds if and only if every element has a strictly
\* positive volume and the face-tag invariant holds: every face of the
\* outer boundary is tagged, every face between two elements of different
\* tags is tagged, and no other face is tagged; and check() fails on a
\* valid mesh of which one element has been reversed.
C20_CheckIffValid ==
    call.op = "check" =>
       /\ call.res = "ok" <=>
            /\ \A i \in DOMAIN mesh.elems : Area2(mesh.elems[i]) > 0
            /\ \A f \in EdgeChoices :
                 LET n == Cardinality(ElemsOf(mesh, f))
                     differ == \E i \in ElemsOf(mesh, f) :
                                 \E j \in ElemsOf(mesh, f) :
                                    mesh.etags[i] # mesh.etags[j]
                 IN  f \in mesh.faces <=> (n = 1 \/ (n = 2 /\ differ))
       /\ mesh.origin = "valid reversed" => call.res = "runtime_error"

\* check() has failed on a valid mesh, of two tags, with one element
\* reversed
C20_Witness ==
    /\ call.op = "check"
    /\ mesh.origin = "valid reversed"
    /\ mesh.etags[1] # mesh.etags[2]
    /\ call.msg = "invalid volume"

-----------------------------------------------------------------------------
(* hessian_to_metric on values: the exponent it derives from p and the     *)
(* scale it applies to the metric of every vertex.  A metric is known by   *)
(* its volume: zero, one, another positive number, negative, or NaN.       *)

VolKinds == {"zero", "one", "pos", "neg", "nan"}
\* the values tried for p
PChoices == Option(0..2)

\* exponent = -2.0 / (2.0 * p + dim) when p is given, 0.0 otherwise; as the
\* fraction <<numerator, denominator>>
Exponent(p, d) == IF p.some THEN <<-2, 2 * p.v + d>> ELSE <<0, 1>>

\* f64::powf(vol, exponent), the exponent being zero or negative: "one" is
\* 1.0, "pow" another positive number, "neg" a negative number, "inf"
\* infinity, "nan" NaN
Powf(vol, ex) ==
    IF ex[1] = 0 THEN "one"
    ELSE IF vol = "nan" THEN "nan"
    ELSE IF vol = "one" THEN "one"
    ELSE IF vol = "zero" THEN "inf"
    ELSE IF vol = "pos" THEN "pow"
    ELSE IF (0 - ex[1]) % ex[2] = 0 THEN "neg"
    ELSE "nan"

\* what the loop does with the metric of one vertex: the scale computed,
\* and whether m_v.scale(scale) was applied and changed the metric
ScaledVertex(vol, ex) ==
    LET scale == Powf(vol, ex)
    IN  [scale |-> scale,
         applied |-> scale # "nan",
         changed |-> scale \notin {"nan", "one"}]

\* hessian_to_metric(mesh, m, p) for m of the right shape, the metrics of
\* the n_verts vertices having the volumes vols
HessianToMetricValues ==
    /\ call = Idle
    /\ mesh.nv > 0
    /\ \E t \in MeshMetricTypes, p \in PChoices,
          vols \in [1..mesh.nv -> VolKinds] :
         LET ex == Exponent(p, Dim(mesh.kind))
         IN  Returned("hessian_to_metric",
                      [t |-> t, p |-> p, vols |-> vols, exponent |-> ex,
                       out |-> [v \in 1..mesh.nv |->
                                  ScaledVertex(vols[v], ex)]],
                      Out("ok", "", mesh.nv, 0, FALSE))
    /\ UNCHANGED <<mesh, geom, remesher, dd, seq, par, cache>>

\* a mesh of dimension 2 or 3 with some vertices
InitHessian ==
    /\ \E k \in {"Mesh22", "Mesh33"}, nv \in 1..MaxVerts :
         mesh = [kind |-> k, nv |-> nv, ne |-> 1, nf |-> 0]
    /\ geom = "none"
    /\ remesher = NoObj
    /\ dd = NoObj
    /\ call = Idle
    /\ seq = SeqIdle
    /\ par = ParIdle
    /\ cache = NoCache

NextHessian ==
    \/ HessianToMetricValues
    \/ Return

SpecHessian == InitHessian /\ [][NextHessian]_vars

\* C21: hessian_to_metric leaves every metric unchanged when p is omitted
\* and when p = 0; for any other p every metric is scaled by its volume
\* raised to -2/(2p+d).
C21_NoRescalingWithoutP ==
    call.op = "hessian_to_metric" =>
       IF ~call.a.p.some \/ call.a.p.v = 0
       THEN \A v \in DOMAIN call.a.out : ~call.a.out[v].changed
       ELSE /\ call.a.exponent = <<-2, 2 * call.a.p.v + Dim(mesh.kind)>>
            /\ \A v \in DOMAIN call.a.out :
                 call.a.vols[v] # "nan" => call.a.out[v].applied

\* C22: when the scale computed for the metric of some vertex is NaN,
\* hessian_to_metric returns an error and no array; it never returns a
\* result in which that metric went through unscaled.
C22_NanScaleRejected ==
    (/\ call.op = "hessian_to_metric"
     /\ \E v \in DOMAIN call.a.out : call.a.out[v].scale = "nan")
        => call.res \in {"value_error", "runtime_error"}

-----------------------------------------------------------------------------
(* elem_data_to_vertex_data and vertex_data_to_elem_data on values.  The   *)
(* binding checks the rows of the array and calls the engine; the          *)
(* averages the engine computes (not in this repository's sources) are     *)
(* modelled from the field transfer of the design document: a vertex gets  *)
(* the volume-weighted average of its elements, an element the average of  *)
(* its vertices.  The arithmetic is exact.                                 *)

\* the constants tried as field values
FieldVals == {-3, 0, 6}
NaN == [nan |-> TRUE, v |-> 0]
Num(x) == [nan |-> FALSE, v |-> x]

RECURSIVE Sum(_, _)
Sum(f, S) ==
    IF S = {} THEN 0
    ELSE LET x == CHOOSE y \in S : TRUE
         IN  f[x] + Sum(f, S \ {x})

\* the elements of m around the vertex v
ElemsAround(m, v) ==
    {i \in DOMAIN m.elems : \E k \in DOMAIN m.elems[i] : m.elems[i][k] = v}

\* the vertex field of the element field f (one column): 0/0 is NaN
EngineElemToVertex(m, f) ==
    [v \in 1..m.nv |->
       LET es == ElemsAround(m, v)
           w == Sum(m.vols, es)
       IN  IF w = 0 \/ \E i \in es : f[i].nan THEN NaN
           ELSE Num(Sum([i \in es |-> m.vols[i] * f[i].v], es) \div w)]

\* the element field of the vertex field g (one column)
EngineVertexToElem(m, g) ==
    [i \in DOMAIN m.elems |->
       LET vs == {m.elems[i][k] : k \in DOMAIN m.elems[i]}
       IN  IF \E v \in vs : g[v].nan THEN NaN
           ELSE Num(Sum([v \in vs |-> g[v].v], vs) \div Cardinality(vs))]

\* a check of the rows that takes the vertices for both conversions
TransferCheckVerts(op, rows) ==
    IF rows # mesh.nv THEN "Invalid dimension 0" ELSE "ok"

\* arr.shape()[0] != self.mesh.n_elems(), respectively n_verts()
TransferCheck(op, rows) ==
    IF op = "elem_data_to_vertex_data"
    THEN IF rows # mesh.ne THEN "Invalid dimension 0" ELSE "ok"
    ELSE IF rows # mesh.nv THEN "Invalid dimension 0" ELSE "ok"

\* the result of a conversion of the field f of the given rows and columns:
\* the engine answers Ok with the field out, or Err
TransferOut(op, rows, ok) ==
    IF TransferCheck(op, rows) # "ok"
    THEN ValueError(TransferCheck(op, rows))
    ELSE IF ok THEN Out("ok", "", rows, 0, TRUE)
    ELSE IF op = "elem_data_to_vertex_data"
    THEN Out("runtime_error", "engine error", rows, 0, TRUE)
    ELSE Out("panic", "unwrap on Err", rows, 0, TRUE)

\* elem_data_to_vertex_data(arr) for a constant arr of rows rows
ElemDataToVertexData ==
    /\ call = Idle
    /\ \E rows \in 0..(mesh.ne + 1), c \in FieldVals, cols \in 1..2,
          ok \in BOOLEAN :
         LET r == TransferOut("elem_data_to_vertex_data", rows, ok)
             f == [i \in 1..rows |-> Num(c)]
         IN  Returned("elem_data_to_vertex_data",
                      [rows |-> rows, cols |-> cols, c |-> c, chained |-> FALSE,
                       out |-> IF r.res = "ok"
                               THEN EngineElemToVertex(mesh, f)
                               ELSE <<>>],
                      r)
    /\ UNCHANGED <<mesh, geom, remesher, dd, seq, par, cache>>

\* vertex_data_to_elem_data(arr), arr being what elem_data_to_vertex_data
\* has just returned, or a constant array of rows rows
VertexDataToElemData ==
    /\ \/ /\ call.op = "elem_data_to_vertex_data"
          /\ call.res = "ok"
          /\ \E ok \in BOOLEAN :
               LET r == TransferOut("vertex_data_to_elem_data",
                                    Len(call.a.out), ok)
               IN  Returned("vertex_data_to_elem_data",
                        [rows |-> Len(call.a.out), cols |-> call.a.cols,
                         c |-> call.a.c, chained |-> TRUE,
                         out |-> IF r.res = "ok"
                                 THEN EngineVertexToElem(mesh, call.a.out)
                                 ELSE <<>>],
                        r)
       \/ /\ call = Idle
          /\ \E rows \in 0..(mesh.nv + 1), c \in FieldVals :
               LET r == TransferOut("vertex_data_to_elem_data", rows, TRUE)
                   g == [v \in 1..rows |-> Num(c)]
               IN  Returned("vertex_data_to_elem_data",
                        [rows |-> rows, cols |-> 1, c |-> c, chained |-> FALSE,
                         out |-> IF r.res = "ok"
                                 THEN EngineVertexToElem(mesh, g)
                                 ELSE <<>>],
                        r)
    /\ UNCHANGED <<mesh, geom, remesher, dd, seq, par, cache>>

\* meshes of one or two triangles on four vertices (with one triangle a
\* vertex belongs to no element), the elements having volumes 1 or 2
InitTransfer ==
    /\ \E ne \in 1..2, w1 \in 1..2, w2 \in 1..2 :
         mesh = [kind |-> "Mesh22", nv |-> 4, ne |-> ne, nf |-> 0,
                 elems |-> SubSeq(<<<<1, 2, 3>>, <<1, 3, 4>>>>, 1, ne),
                 vols |-> SubSeq(<<w1, w2>>, 1, ne)]
    /\ geom = "none"
    /\ remesher = NoObj
    /\ dd = NoObj
    /\ call = Idle
    /\ seq = SeqIdle
    /\ par = ParIdle
    /\ cache = NoCache

NextTransfer ==
    \/ ElemDataToVertexData
    \/ VertexDataToElemData
    \/ Return

SpecTransfer == InitTransfer /\ [][NextTransfer]_vars

\* C23: elem_data_to_vertex_data followed by vertex_data_to_elem_data gives
\* a constant element field back on every element; and each conversion
\* answers a value error when the rows of its input are not the elements,
\* respectively the vertices, of the mesh.
C23_ConstantRoundTrip ==
    /\ (/\ call.op = "vertex_data_to_elem_data"
        /\ call.res = "ok"
        /\ call.a.chained)
          => /\ Len(call.a.out) = mesh.ne
             /\ \A i \in 1..mesh.ne : call.a.out[i] = Num(call.a.c)
    /\ call.op = "elem_data_to_vertex_data" =>
          (call.res = "value_error" <=> call.a.rows # mesh.ne)
    /\ call.op = "vertex_data_to_elem_data" =>
          (call.res = "value_error" <=> call.a.rows # mesh.nv)

\* the round trip of the field 6 on a mesh of one triangle and four
\* vertices has come back
C23_Witness ==
    /\ call.op = "vertex_data_to_elem_data"
    /\ call.res = "ok"
    /\ call.a.chained
    /\ call.a.c = 6
    /\ call.a.cols = 2
    /\ mesh.ne = 1
    /\ call.a.out = <<Num(6)>>

-----------------------------------------------------------------------------
(* Building a mesh from empty(): add_verts and the add_* of entities, with *)
(* the rows the binding hands to the engine.  The arrays are contiguous    *)
(* (as_slice() is Ok).  The engine (SimplexMesh, not in this repository's  *)
(* sources) adds one entity for every chunk it is handed; what it does     *)
(* with a chunk that has not the length of the entity is not fixed here:   *)
(* it panics, or it takes the chunk as it is.                              *)

\* the most rows of an array, and the most vertices or entities of a mesh
MaxAddRows == 2
MaxBuilt == 2

EntityKinds == {"hexs", "pris", "pyrs", "tets", "quas", "tris", "edges"}

\* the number of columns add_<e> asks for
EntityVerts(e) ==
    CASE e = "hexs" -> 8
      [] e = "pris" -> 6
      [] e = "pyrs" -> 5
      [] e \in {"tets", "quas"} -> 4
      [] e = "tris" -> 3
      [] e = "edges" -> 2

\* the add_<e> of a mesh class
AddOps(k) ==
    IF k = "Mesh33" THEN {"hexs", "pris", "pyrs", "tets", "quas", "tris"}
    ELSE IF k \in {"Mesh32", "Mesh22"} THEN {"quas", "tris", "edges"}
    ELSE {}

\* the function of the engine that add_<e> of the class k calls
EngineAdd(k, e) == IF k = "Mesh33" THEN e ELSE "quas"

\* the row i of an array of cols columns, and the array as_slice() gives
\* (row-major): the entry of row i and column j is 10 * i + j
Row(i, cols) == [j \in 1..cols |-> 10 * i + j]
Flat(rows, cols) ==
    [k \in 1..(rows * cols) |->
       10 * (((k - 1) \div cols) + 1) + (((k - 1) % cols) + 1)]

\* s.chunks(n): pieces of n entries, the last one of what is left
Chunks(s, n) ==
    [k \in 1..((Len(s) + n - 1) \div n) |->
       SubSeq(s, (k - 1) * n + 1, Min(k * n, Len(s)))]

\* the engine's add_verts of chunks on a mesh of dimension d: a vertex for
\* every chunk; a chunk shorter than d has no vertex, of a longer one the
\* engine panics (strict) or takes the first d entries
EngineAddVerts(d, chunks, strict) ==
    IF \A k \in DOMAIN chunks : Len(chunks[k]) = d
    THEN [res |-> "ok", verts |-> chunks]
    ELSE IF strict \/ \E k \in DOMAIN chunks : Len(chunks[k]) < d
    THEN [res |-> "panic", verts |-> <<>>]
    ELSE [res |-> "ok",
          verts |-> [k \in DOMAIN chunks |-> SubSeq(chunks[k], 1, d)]]

\* add_verts(coords), coords being of rows rows and cols columns
AddVertsCoords ==
    /\ call = Idle
    /\ \E rows \in 0..MaxAddRows, cols \in ColChoices(Dim(mesh.kind)),
          strict \in BOOLEAN :
         LET a == [rows |-> rows, cols |-> cols]
             r == EngineAddVerts(Dim(mesh.kind),
                                 Chunks(Flat(rows, cols), 3), strict)
         IN  IF cols # Dim(mesh.kind)
             THEN /\ Returned("add_verts", a,
                              ValueError("Invalid dimension 1 for coords"))
                  /\ UNCHANGED mesh
             ELSE /\ Len(mesh.verts) + rows <= MaxBuilt
                  /\ Returned("add_verts", a,
                              Out(r.res, "", rows, 0, TRUE))
                  /\ mesh' = [mesh EXCEPT !.verts = mesh.verts \o r.verts,
                                          !.nv = mesh.nv + Len(r.verts)]
    /\ UNCHANGED <<geom, remesher, dd, seq, par, cache>>

\* a check of the arguments of add_* that forgets the rows of tags
ElemsCheckNoTags(n, ec, er, tr) ==
    IF ec # n THEN "Invalid dimension 1 for elems" ELSE "ok"

\* the checks of add_*(elems, tags), elems being of er rows and ec columns
\* and tags of tr rows, for an entity of n vertices
ElemsCheck(n, ec, er, tr) ==
    IF ec # n THEN "Invalid dimension 1 for elems"
    ELSE IF er # tr THEN "Invalid dimension 0 for elems / tags"
    ELSE "ok"

\* the engine's add_<target> of chunks of n entries: an entity of the kind
\* target for every chunk; of chunks that have not the vertices of the
\* kind the engine panics (strict) or takes them as they are
EngineAddEntities(target, chunks, strict) ==
    IF \A k \in DOMAIN chunks : Len(chunks[k]) = EntityVerts(target)
    THEN [res |-> "ok",
          ents |-> [k \in DOMAIN chunks |->
                      [kind |-> target, verts |-> Len(chunks[k]), tag |-> k]]]
    ELSE IF strict
    THEN [res |-> "panic", ents |-> <<>>]
    ELSE [res |-> "ok",
          ents |-> [k \in DOMAIN chunks |->
                      [kind |-> target, verts |-> Len(chunks[k]), tag |-> k]]]

\* add_<e>(elems, tags) of every mesh class that has it, elems being of er
\* rows and ec columns, tags of tr rows (the tag of row k is k)
AddElems ==
    /\ call = Idle
    /\ \E e \in AddOps(mesh.kind), er \in 0..MaxAddRows,
          tr \in 0..MaxAddRows, strict \in BOOLEAN :
       \E ec \in ColChoices(EntityVerts(e)) :
         LET a == [e |-> e, ec |-> ec, er |-> er, tr |-> tr]
             n == EntityVerts(e)
             r == EngineAddEntities(EngineAdd(mesh.kind, e),
                                    Chunks(Flat(er, ec), n), strict)
         IN  IF ElemsCheck(n, ec, er, tr) # "ok"
             THEN /\ Returned("add_elems", a,
                              ValueError(ElemsCheck(n, ec, er, tr)))
                  /\ UNCHANGED mesh
             ELSE /\ Len(mesh.ents) + er <= MaxBuilt
                  /\ Returned("add_elems", a, Out(r.res, "", er, 0, TRUE))
                  /\ mesh' = [mesh EXCEPT !.ents = mesh.ents \o r.ents]
    /\ UNCHANGED <<geom, remesher, dd, seq, par, cache>>

\* $name::empty() of every mesh class
InitBuild ==
    /\ \E k \in MeshKinds :
         mesh = [kind |-> k, nv |-> 0, verts |-> <<>>, ents |-> <<>>]
    /\ geom = "none"
    /\ remesher = NoObj
    /\ dd = NoObj
    /\ call = Idle
    /\ seq = SeqIdle
    /\ par = ParIdle
    /\ cache = NoCache

NextBuild ==
    \/ AddVertsCoords
    \/ AddElems
    \/ Return

SpecBuild == InitBuild /\ [][NextBuild]_vars

\* C24: an add_* whose elems have not the columns of the entity, or not as
\* many rows as tags, returns a value error and leaves the mesh as it was.
C24_BadElemsRejected ==
    (/\ call.op = "add_elems"
     /\ \/ call.a.ec # EntityVerts(call.a.e)
        \/ call.a.er # call.a.tr)
       => /\ call.res = "value_error"
          /\ ~call.engine
          /\ mesh = call.pre.mesh

\* add_hexs of one row of eight columns and no tag was refused on a mesh
\* that has a vertex
C24_Witness ==
    /\ call.op = "add_elems"
    /\ call.a.e = "hexs"
    /\ call.a.ec = 8
    /\ call.a.er = 1
    /\ call.a.tr = 0
    /\ call.res = "value_error"
    /\ mesh.nv = 1

\* C25: on Mesh32 and Mesh22, add_tris of k rows of three columns and k
\* tags adds k triangles with the tags of the rows, add_edges of k rows of
\* two columns and k tags adds k edges, and no quadrilateral is added.
C25_TrisAndEdgesAdded ==
    (/\ call.op = "add_elems"
     /\ mesh.kind \in {"Mesh32", "Mesh22"}
     /\ call.a.e \in {"tris", "edges"}
     /\ call.a.ec = EntityVerts(call.a.e)
     /\ call.a.er = call.a.tr)
       => /\ call.res = "ok"
          /\ Len(mesh.ents) = Len(call.pre.mesh.ents) + call.a.er
          /\ \A k \in 1..call.a.er :
               mesh.ents[Len(call.pre.mesh.ents) + k] =
                  [kind |-> call.a.e, verts |-> EntityVerts(call.a.e),
                   tag |-> k]

\* C29: add_verts of n rows of dim columns appends the n rows, in order, to
\* the vertices of the mesh, on every mesh class; with another number of
\* columns it returns a value error and the mesh is as it was.
C29_AddVertsAppendsRows ==
    call.op = "add_verts" =>
       IF call.a.cols = Dim(mesh.kind)
       THEN /\ call.res = "ok"
            /\ mesh.nv = call.pre.mesh.nv + call.a.rows
            /\ mesh.verts = call.pre.mesh.verts \o
                              [i \in 1..call.a.rows |-> Row(i, call.a.cols)]
       ELSE /\ call.res = "value_error"
            /\ mesh = call.pre.mesh

-----------------------------------------------------------------------------
(* The arrays of the caller and the data of the mesh: create_mesh!::new    *)
(* and the getters get_verts, get_elems, get_etags, get_faces, get_ftags.  *)
(* A two-dimensional array is the sequence of its rows.  heap gives the    *)
(* content of every buffer: the arrays of the caller ("in"), the vectors   *)
(* of the mesh ("mesh") and the arrays the getters have returned ("out").  *)
(* That the engine (SimplexMesh, not in this repository's sources) keeps   *)
(* the vectors it is given, in their order, is taken from the data model   *)
(* of the design document.  The arrays given here have the shapes the      *)
(* constructor asks for.                                                   *)

\* the most writes of the caller into its arrays
MaxWrites == 2

Fields == {"coords", "elems", "etags", "faces", "ftags"}

\* the columns of the array f of the class k; 0 for a one-dimensional array
Cols(k, f) ==
    CASE f = "coords" -> Dim(k)
      [] f = "elems" -> ElemVerts(k)
      [] f = "faces" -> FaceVerts(k)
      [] f \in {"etags", "ftags"} -> 0

RECURSIVE Flatten(_)
Flatten(rows) ==
    IF rows = <<>> THEN <<>> ELSE Head(rows) \o Flatten(Tail(rows))

\* as_slice()?.chunks(n).map(..).collect(), and to_vec() of the tags
ToEngine(k, f, arr) ==
    IF Cols(k, f) = 0 THEN arr ELSE Chunks(Flatten(arr), Cols(k, f))

\* to_numpy_2d(py, flat, m): from_vec(flat).reshape([n / m, m]), and
\* to_numpy_1d of the tags
ToNumpy(k, f, data) ==
    IF Cols(k, f) = 0 THEN data ELSE Chunks(Flatten(data), Cols(k, f))

\* a mesh that keeps the buffer of the caller instead of a vector of its own
StoredShared(f) == <<"in", f>>

\* the buffer that holds the data f of the mesh
Stored(f) == <<"mesh", f>>

\* the array arr of the field f with its first entry set to 0
Written(k, f, arr) ==
    IF arr = <<>> THEN arr
    ELSE IF Cols(k, f) = 0 THEN [arr EXCEPT ![1] = 0]
    ELSE [arr EXCEPT ![1][1] = 0]

\* $name(coords, elems, etags, faces, ftags): the data is copied
MeshNewCopy ==
    /\ call = Idle
    /\ mesh.kind = "none"
    /\ LET k == mesh.cls
           made == [f \in Fields |-> ToEngine(k, f, mesh.heap[<<"in", f>>])]
       IN  /\ mesh' = [mesh EXCEPT
                  !.kind = k,
                  !.nv = Len(mesh.heap[<<"in", "coords">>]),
                  !.given = [f \in Fields |-> mesh.heap[<<"in", f>>]],
                  !.heap = [b \in DOMAIN mesh.heap |->
                              IF b = Stored(b[2]) THEN made[b[2]]
                              ELSE mesh.heap[b]]]
           /\ Returned("new", [k |-> k], Out("ok", "", 0, 0, TRUE))
    /\ UNCHANGED <<geom, remesher, dd, seq, par, cache>>

\* get_verts, get_elems, get_etags, get_faces, get_ftags: a new array
GetArray ==
    /\ call = Idle
    /\ mesh.kind # "none"
    /\ \E f \in Fields :
         LET arr == ToNumpy(mesh.kind, f, mesh.heap[Stored(f)])
         IN  /\ mesh' = [mesh EXCEPT !.heap[<<"out", f>>] = arr]
             /\ Returned("get", [f |-> f, arr |-> arr,
                                 first |-> mesh.writes = 0],
                         Out("ok", "", 0, 0, TRUE))
    /\ UNCHANGED <<geom, remesher, dd, seq, par, cache>>

\* the caller writes into an array it gave to the constructor, or into an
\* array a getter returned
WriteArray ==
    /\ call = Idle
    /\ mesh.kind # "none"
    /\ mesh.writes < MaxWrites
    /\ \E side \in {"in", "out"}, f \in Fields :
         /\ mesh.heap[<<side, f>>] # <<>>
         /\ mesh' = [mesh EXCEPT
                !.writes = mesh.writes + 1,
                !.heap[<<side, f>>] =
                    Written(mesh.kind, f, mesh.heap[<<side, f>>])]
    /\ UNCHANGED <<geom, remesher, dd, call, seq, par, cache>>

\* the arrays of a caller for a mesh of the class k of nv vertices, one
\* element and one face
InitCopy ==
    /\ \E k \in MeshKinds, nv \in 1..MaxVerts :
         mesh = [kind |-> "none", cls |-> k, nv |-> 0, writes |-> 0,
                 given |-> [f \in Fields |-> <<>>],
                 heap |-> [b \in {"in", "mesh", "out"} \X Fields |->
                             IF b[1] # "in" THEN <<>>
                             ELSE IF b[2] = "coords"
                             THEN [i \in 1..nv |-> Row(i, Dim(k))]
                             ELSE IF Cols(k, b[2]) = 0 THEN <<1>>
                             ELSE <<Row(1, Cols(k, b[2]))>>]]
    /\ geom = "none"
    /\ remesher = NoObj
    /\ dd = NoObj
    /\ call = Idle
    /\ seq = SeqIdle
    /\ par = ParIdle
    /\ cache = NoCache

NextCopy ==
    \/ MeshNewCopy
    \/ GetArray
    \/ WriteArray
    \/ Return

SpecCopy == InitCopy /\ [][NextCopy]_vars

\* C26: the data of a mesh is, whatever the caller writes afterwards into
\* the arrays it gave or into the arrays it got, the arrays given to the
\* constructor; and a getter called before any such write returns an array
\* equal to the one given.
C26_DataCopiedInAndOut ==
    /\ mesh.kind # "none" =>
          \A f \in Fields :
             ToNumpy(mesh.kind, f, mesh.heap[Stored(f)]) = mesh.given[f]
    /\ call.op = "get" =>
          /\ call.a.arr = mesh.given[call.a.f]
          /\ call.a.first => call.a.arr = mesh.heap[<<"in", call.a.f>>]

\* get_verts has returned the two rows given, after the caller wrote into
\* the coordinates it gave and into the array an earlier get_verts returned
C26_Witness ==
    /\ call.op = "get"
    /\ call.a.f = "coords"
    /\ mesh.kind = "Mesh22"
    /\ call.a.arr = <<<<11, 12>>, <<21, 22>>>>
    /\ mesh.heap[<<"in", "coords">>] = <<<<0, 12>>, <<21, 22>>>>
    /\ call.pre.mesh.heap[<<"out", "coords">>] = <<<<0, 12>>, <<21, 22>>>>

-----------------------------------------------------------------------------
(* The Mesh object and the mesh of a remesher: Remesher*::new, remesh,     *)
(* to_mesh, ParallelRemesher*::new, partitionned_mesh, remesh.  An object  *)
(* of the engine keeps its mesh somewhere (at): in itself ("own") or in    *)
(* the Mesh object it was built from ("given").  The structs of the        *)
(* binding have no lifetime parameter and get the mesh by a shared         *)
(* reference, respectively a clone.  What the engine does to its mesh (not *)
(* in this repository's sources) is a new number of vertices and elements. *)

\* an engine object that works on the Mesh object it was given
HeldGiven(k, m) == [kind |-> k, at |-> "given", nv |-> m.nv, ne |-> m.ne]

\* the object the engine builds from &mesh.mesh, or from mesh.mesh.clone()
Held(k, m) == [kind |-> k, at |-> "own", nv |-> m.nv, ne |-> m.ne]

\* the mesh an engine object o works on
MeshOf(o) == IF o.at = "own" THEN [nv |-> o.nv, ne |-> o.ne]
             ELSE [nv |-> mesh.nv, ne |-> mesh.ne]

\* Remesher*::new(mesh, geometry, m) with m of the shape of the mesh and a
\* geometry; ok: the engine answers Ok
RemesherNewHeld ==
    /\ call = Idle
    /\ remesher = NoObj
    /\ \E ok \in BOOLEAN :
         /\ Returned("RemesherNew", [ok |-> ok], AfterEngine(ok, mesh.nv, 0))
         /\ remesher' = IF ok THEN Held("Remesher", mesh) ELSE NoObj
    /\ UNCHANGED <<mesh, geom, dd, seq, par, cache>>

\* ParallelRemesher*::new(mesh, partition_type, n_partitions) with a
\* partition type that exists
ParNewHeld ==
    /\ call = Idle
    /\ dd = NoObj
    /\ \E ok \in BOOLEAN :
         /\ Returned("ParNew", [ok |-> ok], AfterEngine(ok, 0, 0))
         /\ dd' = IF ok THEN Held("ParallelRemesher", mesh) ELSE NoObj
    /\ UNCHANGED <<mesh, geom, remesher, seq, par, cache>>

\* remesh(..) of a Remesher: the engine changes the mesh it works on
RemeshHeld ==
    /\ call = Idle
    /\ remesher # NoObj
    /\ \E nv \in 1..(MaxVerts + 1), ne \in 1..MaxElems :
         /\ Returned("remesh", [nv |-> nv, ne |-> ne],
                     Out("ok", "", 0, 0, TRUE))
         /\ IF remesher.at = "own"
            THEN /\ remesher' = [remesher EXCEPT !.nv = nv, !.ne = ne]
                 /\ UNCHANGED mesh
            ELSE /\ mesh' = [mesh EXCEPT !.nv = nv, !.ne = ne]
                 /\ UNCHANGED remesher
    /\ UNCHANGED <<geom, dd, seq, par, cache>>

\* to_mesh(only_bdy_faces) of a Remesher and partitionned_mesh() of a
\* ParallelRemesher: a new Mesh object (out) of the mesh of the engine
ToMesh ==
    /\ call = Idle
    /\ \E o \in {remesher, dd} \ {NoObj} :
         Returned(IF o.kind = "Remesher" THEN "to_mesh"
                  ELSE "partitionned_mesh",
                  [out |-> [kind |-> mesh.kind, nf |-> mesh.nf,
                            nv |-> MeshOf(o).nv, ne |-> MeshOf(o).ne]],
                  Out("ok", "", 0, 0, TRUE))
    /\ UNCHANGED <<mesh, geom, remesher, dd, seq, par, cache>>

\* remesh(geometry, m, ..) of a ParallelRemesher, m being of the shape of
\* the mesh: the engine returns a new mesh (out), or Err, which is unwrapped
ParRemeshHeld ==
    /\ call = Idle
    /\ dd # NoObj
    /\ \E nv \in 1..(MaxVerts + 1), ne \in 1..MaxElems, ok \in BOOLEAN :
         Returned("par_remesh",
                  [out |-> [kind |-> mesh.kind, nf |-> mesh.nf,
                            nv |-> nv, ne |-> ne]],
                  IF ok THEN Out("ok", "", MeshOf(dd).nv, 0, TRUE)
                  ELSE Out("panic", "unwrap on Err", MeshOf(dd).nv, 0, TRUE))
    /\ UNCHANGED <<mesh, geom, remesher, dd, seq, par, cache>>

\* a Mesh object of one of the classes, and a geometry
InitHeld ==
    /\ \E k \in MeshKinds, nv \in 1..MaxVerts, ne \in 1..MaxElems :
         mesh = [kind |-> k, nv |-> nv, ne |-> ne, nf |-> 0]
    /\ geom = "some"
    /\ remesher = NoObj
    /\ dd = NoObj
    /\ call = Idle
    /\ seq = SeqIdle
    /\ par = ParIdle
    /\ cache = NoCache

NextHeld ==
    \/ RemesherNewHeld
    \/ ParNewHeld
    \/ RemeshHeld
    \/ ToMesh
    \/ ParRemeshHeld
    \/ Return

SpecHeld == InitHeld /\ [][NextHeld]_vars

\* C28: the construction of a Remesher or ParallelRemesher and every later
\* remesh, to_mesh and partitionned_mesh leave the Mesh object they were
\* built from as it was; the engine works on a mesh of its own.
C28_GivenMeshUntouched ==
    /\ call # Idle => mesh = call.pre.mesh
    /\ \A o \in {remesher, dd} \ {NoObj} : o.at = "own"

\* to_mesh has returned a mesh of three vertices after a remesh, the Mesh
\* object the remesher was built from having one vertex
C28_Witness ==
    /\ call.op = "to_mesh"
    /\ call.a.out.nv = 3
    /\ mesh.nv = 1
    /\ dd # NoObj

-----------------------------------------------------------------------------
(* ParallelRemesher.remesh with the engine it calls                        *)
(* (ParallelRemesher::remesh of the tucanos crate, modelled from sections  *)
(* 4.5 and 5 of the design document): n_levels rounds; in a round every    *)
(* partition is remeshed on its own overlapped copy, as parallel tasks,    *)
(* and the results are then merged into the global mesh.                   *)

\* largest n_levels given to remesh
MaxLevels == 2
\* largest number of remeshing operations of one subdomain in one round
MaxSubOps == 1

\* the n_levels tried: omitted, one, the largest
LevelChoices == Option({1, MaxLevels})

Parts == 1..dd.np

\* a place of the memory the engine works on
Loc(k, i) == [k |-> k, i |-> i]
\* an access of the task of partition i
Acc(i, loc, mode) == [who |-> i, loc |-> loc, mode |-> mode]

\* a subdomain task that keeps its projections in the shared geometry
SubAccessSharedWrite(i, phase) ==
    IF phase = "start"
    THEN {Acc(i, Loc("global", 0), "r"), Acc(i, Loc("m", 0), "r"),
          Acc(i, Loc("copy", i), "w"), Acc(i, Loc("slice", i), "w")}
    ELSE {Acc(i, Loc("geom", 0), "w"), Acc(i, Loc("slice", i), "r"),
          Acc(i, Loc("copy", i), "w")}

\* what the task of partition i reads ("r") and writes ("w"): when it
\* starts, it takes its overlapped copy of the global mesh and its slice of
\* the metric array m (both given as shared references, &m and
\* &geometry.geom); when it remeshes, it works on its copy with its slice
\* and queries the geometry
SubAccess(i, phase) ==
    IF phase = "start"
    THEN {Acc(i, Loc("global", 0), "r"), Acc(i, Loc("m", 0), "r"),
          Acc(i, Loc("copy", i), "w"), Acc(i, Loc("slice", i), "w")}
    ELSE {Acc(i, Loc("geom", 0), "r"), Acc(i, Loc("slice", i), "r"),
          Acc(i, Loc("copy", i), "w")}

NoSub == [st |-> "wait", lvl |-> 0, ver |-> 0]

ParEngineIdle ==
    [pc |-> "idle", level |-> 0, nlevels |-> 0, sub |-> <<>>,
     merged |-> {}, mergedLv |-> {}, glob |-> 0, acc |-> {}, failed |-> 0]

\* ParallelRemesher.remesh up to its call of the engine, which starts the
\* first round; n_levels.unwrap_or(1)
ParRemeshBegin ==
    /\ call = Idle
    /\ dd # NoObj
    /\ geom # "none"
    /\ par.pc = "idle"
    /\ \E a \in ParRemeshArgs, nl \in LevelChoices :
         LET entry == ParRemeshEntry(a)
         IN  IF entry.res = "ok"
             THEN /\ Returned("par_remesh", a,
                              Out("running", "", entry.reads, 0, TRUE))
                  /\ par' = [ParEngineIdle EXCEPT
                               !.pc = "run", !.level = 1,
                               !.nlevels = UnwrapOr(nl, 1),
                               !.sub = [i \in Parts |-> NoSub],
                               !.glob = par.glob]
             ELSE /\ Returned("par_remesh", a, entry)
                  /\ par' = par
    /\ UNCHANGED <<mesh, geom, remesher, dd, seq, cache>>

\* the task of partition i starts: it takes its copy and its metric slice
SubStart(i) ==
    /\ par.pc = "run"
    /\ par.sub[i].st = "wait"
    /\ par' = [par EXCEPT !.sub[i] = [st |-> "run", lvl |-> par.level,
                                      ver |-> 0],
                          !.acc = par.acc \cup SubAccess(i, "start")]
    /\ UNCHANGED <<mesh, geom, remesher, dd, call, seq, cache>>

\* the task of partition i does one remeshing operation on its copy
SubStep(i) ==
    /\ par.sub[i].st = "run"
    /\ par.sub[i].ver < MaxSubOps
    /\ par' = [par EXCEPT !.sub[i].ver = par.sub[i].ver + 1,
                          !.acc = par.acc \cup SubAccess(i, "remesh")]
    /\ UNCHANGED <<mesh, geom, remesher, dd, call, seq, cache>>

\* the remesh of partition i ends, with a result or with an error
SubFinish(i) ==
    /\ par.sub[i].st = "run"
    /\ \E ok \in BOOLEAN :
         par' = [par EXCEPT !.sub[i].st = IF ok THEN "ok" ELSE "fail"]
    /\ UNCHANGED <<mesh, geom, remesher, dd, call, seq, cache>>

Finished(p) == \A i \in DOMAIN p.sub : p.sub[i].st \in {"ok", "fail"}

\* a merge that starts as soon as one subdomain has a result
MergeReadyEager(p) == \E i \in DOMAIN p.sub : p.sub[i].st = "ok"

\* a merge of the results of the subdomains that did succeed
MergeReadyPartial(p) ==
    /\ Finished(p)
    /\ \E i \in DOMAIN p.sub : p.sub[i].st = "ok"

\* the merge of a round starts when every subdomain remesh of the round has
\* ended and none has failed
MergeReady(p) ==
    /\ Finished(p)
    /\ \A i \in DOMAIN p.sub : p.sub[i].st = "ok"

MergeBegin ==
    /\ par.pc = "run"
    /\ MergeReady(par)
    /\ par' = [par EXCEPT !.pc = "merge", !.merged = {}]
    /\ UNCHANGED <<mesh, geom, remesher, dd, call, seq, cache>>

\* the core of the result of partition i is written into the global mesh
MergePart(i) ==
    /\ par.pc = "merge"
    /\ i \notin par.merged
    /\ par.sub[i].st = "ok"
    /\ par' = [par EXCEPT !.merged = par.merged \cup {i},
                          !.mergedLv = par.mergedLv \cup {par.level},
                          !.glob = (par.glob + 1) % 2]
    /\ UNCHANGED <<mesh, geom, remesher, dd, call, seq, cache>>

\* the merge is over: the next round starts, or the engine returns Ok
MergeEnd ==
    /\ par.pc = "merge"
    /\ par.merged = {i \in DOMAIN par.sub : par.sub[i].st = "ok"}
    /\ IF par.level = par.nlevels
       THEN par' = [par EXCEPT !.pc = "done"]
       ELSE par' = [par EXCEPT !.pc = "run", !.level = par.level + 1,
                               !.sub = [i \in DOMAIN par.sub |-> NoSub],
                               !.merged = {}, !.acc = {}]
    /\ UNCHANGED <<mesh, geom, remesher, dd, call, seq, cache>>

\* a subdomain remesh of the round has failed: the engine returns an Err
\* that names the failing partition
RoundFail ==
    /\ par.pc = "run"
    /\ Finished(par)
    /\ \E i \in DOMAIN par.sub :
         /\ par.sub[i].st = "fail"
         /\ par' = [par EXCEPT !.pc = "failed", !.failed = i]
    /\ UNCHANGED <<mesh, geom, remesher, dd, call, seq, cache>>

\* the engine has answered: the closure given to allow_threads unwraps the
\* answer, and remesh returns the mesh and the report
ParRemeshEnd ==
    /\ par.pc \in {"done", "failed"}
    /\ call.op = "par_remesh"
    /\ call.res = "running"
    /\ LET out == ParRemeshExit([reads |-> call.reads], par.failed)
       IN  call' = [call EXCEPT !.res = out.res, !.msg = out.msg,
                                !.a.failed = par.failed]
    /\ par' = [ParEngineIdle EXCEPT !.glob = par.glob]
    /\ UNCHANGED <<mesh, geom, remesher, dd, seq, cache>>

\* a mesh and its geometry, and no ParallelRemesher yet
InitPar ==
    /\ mesh = [kind |-> "Mesh22", nv |-> 1, ne |-> 1, nf |-> 0]
    /\ geom = "some"
    /\ remesher = NoObj
    /\ dd = NoObj
    /\ call = Idle
    /\ seq = SeqIdle
    /\ par = ParEngineIdle
    /\ cache = NoCache

NextPar ==
    \/ ParNew
    \/ ParRemeshBegin
    \/ \E i \in DOMAIN par.sub : SubStart(i)
    \/ \E i \in DOMAIN par.sub : SubStep(i)
    \/ \E i \in DOMAIN par.sub : SubFinish(i)
    \/ MergeBegin
    \/ \E i \in DOMAIN par.sub : MergePart(i)
    \/ MergeEnd
    \/ RoundFail
    \/ ParRemeshEnd
    \/ ReturnSeq

SpecPar == InitPar /\ [][NextPar]_vars

-----------------------------------------------------------------------------
(* The connectivity caches of a mesh and the operations that change the    *)
(* mesh (create_mesh!, Mesh33).  The binding hands every one of them to    *)
(* the engine (SimplexMesh, not in this repository's sources); what the    *)
(* engine clears on a mutation is modelled from the data model of the      *)
(* design document.                                                        *)

Caches == {"vertex_to_elems", "face_to_elems", "elem_to_elems", "edges",
           "vertex_to_vertices", "volumes", "topology"}

\* what compute_<c> computes: compute_elem_to_elems computes the
\* face-to-element connectivity if it is not available,
\* compute_vertex_to_vertices the edges if they are not available
Needs(c) ==
    IF c = "elem_to_elems" THEN {"face_to_elems"}
    ELSE IF c = "vertex_to_vertices" THEN {"edges"}
    ELSE {}

\* the parts of the mesh a cache is derived from
DerivedFrom(c) ==
    IF c \in {"vertex_to_elems", "vertex_to_vertices", "volumes"}
    THEN {"verts", "elems"}
    ELSE IF c = "topology" THEN {"verts", "elems", "faces"}
    ELSE {"elems"}

Mutations == {"add_verts", "add_elems", "add_faces", "add_boundary_faces",
              "reorder_hilbert"}

\* the parts of the mesh a structural mutation changes
Changes(op) ==
    IF op = "add_verts" THEN {"verts"}
    ELSE IF op = "add_elems" THEN {"elems"}
    ELSE IF op \in {"add_faces", "add_boundary_faces"} THEN {"faces"}
    ELSE {"verts", "elems", "faces"}

\* an engine that leaves the caches alone when the mesh changes
InvalidatesNothing(op) == {}

\* the caches the engine clears on a structural mutation
Invalidates(op) == {c \in Caches : DerivedFrom(c) \cap Changes(op) # {}}

\* the caches after the structural mutation op
Mutated(op) ==
    LET hit == {c \in cache.present : DerivedFrom(c) \cap Changes(op) # {}}
    IN  [present |-> cache.present \ Invalidates(op),
         stale |-> (cache.stale \cup hit) \ Invalidates(op)]

\* compute_vertex_to_elems .. compute_volumes, compute_topology
Compute ==
    /\ call = Idle
    /\ mesh # NoMesh
    /\ \E c \in Caches :
         LET kept == Needs(c) \cap cache.present
         IN  /\ cache' = [present |-> cache.present \cup {c} \cup Needs(c),
                          stale |-> IF kept \cap cache.stale # {}
                                    THEN cache.stale \cup {c}
                                    ELSE cache.stale \ {c}]
             /\ Returned("compute", [cache |-> c], Out("ok", "", 0, 0, TRUE))
    /\ UNCHANGED <<mesh, geom, remesher, dd, seq, par>>

\* clear_vertex_to_elems .. clear_volumes, clear_topology
Clear ==
    /\ call = Idle
    /\ mesh # NoMesh
    /\ \E c \in Caches :
         /\ cache' = [present |-> cache.present \ {c},
                      stale |-> cache.stale \ {c}]
         /\ Returned("clear", [cache |-> c], Out("ok", "", 0, 0, TRUE))
    /\ UNCHANGED <<mesh, geom, remesher, dd, seq, par>>

\* add_verts(coords): the check of the columns of coords, then the engine
AddVerts ==
    /\ call = Idle
    /\ mesh # NoMesh
    /\ \E cc \in ColChoices(Dim(mesh.kind)), cr \in 0..1 :
         IF cc # Dim(mesh.kind)
         THEN /\ Returned("add_verts", [cc |-> cc, cr |-> cr],
                          ValueError("Invalid dimension 1 for coords"))
              /\ UNCHANGED <<mesh, cache>>
         ELSE /\ mesh.nv + cr <= MaxVerts
              /\ Returned("add_verts", [cc |-> cc, cr |-> cr],
                          Out("ok", "", 0, 0, TRUE))
              /\ mesh' = [mesh EXCEPT !.nv = mesh.nv + cr]
              /\ cache' = Mutated("add_verts")
    /\ UNCHANGED <<geom, remesher, dd, seq, par>>

\* Mesh33::add_tets(elems, tags) and the other add_* of elements (hexs,
\* pris, pyrs) and of faces (tris, quas): the checks of the arguments, then
\* the engine; n is the number of vertices of the entity added
AddEntities(op, n) ==
    /\ call = Idle
    /\ mesh.kind = "Mesh33"
    /\ \E ec \in ColChoices(n), er \in 0..1, tr \in 0..1 :
         LET a == [ec |-> ec, er |-> er, tr |-> tr]
         IN  IF ElemsCheck(n, ec, er, tr) # "ok"
             THEN /\ Returned(op, a, ValueError(ElemsCheck(n, ec, er, tr)))
                  /\ UNCHANGED <<mesh, cache>>
             ELSE /\ Returned(op, a, Out("ok", "", 0, 0, TRUE))
                  /\ IF op = "add_elems"
                     THEN /\ mesh.ne + er <= MaxRows
                          /\ mesh' = [mesh EXCEPT !.ne = mesh.ne + er]
                     ELSE /\ mesh.nf + er <= MaxRows
                          /\ mesh' = [mesh EXCEPT !.nf = mesh.nf + er]
                  /\ cache' = Mutated(op)
    /\ UNCHANGED <<geom, remesher, dd, seq, par>>

AddTets == AddEntities("add_elems", ElemVerts("Mesh33"))
AddTris == AddEntities("add_faces", FaceVerts("Mesh33"))

\* add_boundary_faces() and reorder_hilbert()
Restructure ==
    /\ call = Idle
    /\ mesh # NoMesh
    /\ \E op \in {"add_boundary_faces", "reorder_hilbert"} :
         /\ Returned(op, [ok |-> TRUE], Out("ok", "", 0, 0, TRUE))
         /\ cache' = Mutated(op)
    /\ UNCHANGED <<mesh, geom, remesher, dd, seq, par>>

\* a query of the engine that reads the cache c (smooth and the gradient
\* read the vertex-to-vertex connectivity, and so on); without the cache
\* the engine answers Err, which the binding returns as a runtime error
Query ==
    /\ call = Idle
    /\ mesh # NoMesh
    /\ \E c \in Caches :
         Returned("query", [cache |-> c, stale |-> c \in cache.stale],
                  IF c \in cache.present THEN Out("ok", "", 0, 0, TRUE)
                  ELSE Out("runtime_error", "not computed", 0, 0, TRUE))
    /\ UNCHANGED <<mesh, geom, remesher, dd, seq, par, cache>>

\* $name::empty()
InitMesh ==
    /\ mesh = [kind |-> "Mesh33", nv |-> 0, ne |-> 0, nf |-> 0]
    /\ geom = "none"
    /\ remesher = NoObj
    /\ dd = NoObj
    /\ call = Idle
    /\ seq = SeqIdle
    /\ par = ParIdle
    /\ cache = NoCache

NextMesh ==
    \/ Compute
    \/ Clear
    \/ AddVerts
    \/ AddTets
    \/ AddTris
    \/ Restructure
    \/ Query
    \/ Return

SpecMesh == InitMesh /\ [][NextMesh]_vars

-----------------------------------------------------------------------------
(* Properties of the parallel remesher *)

SubsOf(p, st) == {i \in DOMAIN p.sub : p.sub[i].st = st}

\* C6: the merge of a round begins only after every subdomain remesh of
\* that round has finished; the global mesh is written by no step other
\* than a step of the merge; and no subdomain remesh runs, of this round or
\* of the next, while the merge is under way.
C6_MergeAfterAllSubdomains ==
    /\ [](par.pc = "merge" =>
            \A i \in DOMAIN par.sub :
               par.sub[i].st = "ok" /\ par.sub[i].lvl = par.level)
    /\ [][par'.glob # par.glob => par.pc = "merge" /\ par'.pc = "merge"]_vars
    /\ [](\A i \in DOMAIN par.sub :
            par.sub[i].st = "run" =>
               par.pc = "run" /\ par.sub[i].lvl = par.level)

\* the merge of the second round of two partitions is under way
C6_Witness ==
    /\ par.pc = "merge"
    /\ par.level = 2
    /\ Cardinality(DOMAIN par.sub) = 2
    /\ Cardinality(par.merged) = 1

\* C7: within a round, no subdomain task writes a place that another
\* subdomain task reads or writes: what two tasks both touch, both only
\* read.
C7_NoSharedMutableState ==
    \A a \in par.acc : \A b \in par.acc :
        (a.who # b.who /\ a.loc = b.loc) => (a.mode = "r" /\ b.mode = "r")

\* two tasks have both remeshed their copies and queried the geometry
C7_Witness ==
    /\ Cardinality(DOMAIN par.sub) = 2
    /\ \A i \in DOMAIN par.sub :
         /\ par.sub[i].ver = MaxSubOps
         /\ Acc(i, Loc("geom", 0), "r") \in par.acc
         /\ Acc(i, Loc("copy", i), "w") \in par.acc

\* C8: when a subdomain remesh has failed, the call of remesh ends in a
\* reported error (an error returned to the caller, which can then name the
\* failing partition), and returns no mesh.
C8_SubdomainFailureReported ==
    (call.op = "par_remesh" /\ call.res # "running" /\ call.a.failed # 0)
        => call.res = "runtime_error"

\* C9: when a subdomain remesh of a round has failed, the merge of that
\* round never runs: nothing is written into the global mesh, the results
\* of the subdomains that succeeded included.
C9_FailedRoundNeverMerges ==
    /\ [](SubsOf(par, "fail") # {} =>
            par.pc # "merge" /\ par.level \notin par.mergedLv)
    /\ [][SubsOf(par, "fail") # {} => par'.glob = par.glob]_vars

\* the second round has failed with one subdomain that had succeeded, the
\* first round having been merged
C9_Witness ==
    /\ par.pc = "failed"
    /\ par.level = 2
    /\ par.mergedLv = {1}
    /\ SubsOf(par, "ok") # {}
    /\ SubsOf(par, "fail") # {}

\* C10: a subdomain is remeshed only for a ParallelRemesher that was
\* constructed, hence partitioned, and only for one of its partitions; and
\* when the partitioning fails, the constructor returns a runtime error
\* that carries the description of the failure, and builds no object.
C10_PartitionBeforeRemesh ==
    /\ \A i \in DOMAIN par.sub :
         par.sub[i].st # "wait" => (dd # NoObj /\ i \in 1..dd.np)
    /\ (call.op = "ParNew" /\ call.a.ptype \in PartitionTypes
          /\ call.a.err # "")
         => /\ call.res = "runtime_error"
            /\ call.msg = call.a.err
            /\ dd = NoObj
            /\ par.pc = "idle"

\* the partitioning has just failed
C10_Witness ==
    /\ call.op = "ParNew"
    /\ call.a.ptype = "hilbert"
    /\ call.a.err = "partitioner failed"
    /\ call.res = "runtime_error"
    /\ dd = NoObj

\* C11: the constructor of a ParallelRemesher accepts partition_type if and
\* only if it is "scotch", "metis_kway", "metis_recursive" or "hilbert";
\* any other string gives a value error before the engine is called (the
\* mesh is neither copied nor partitioned) and no object is built.
C11_PartitionTypeValidated ==
    call.op = "ParNew" =>
       IF call.a.ptype \in {"scotch", "metis_kway", "metis_recursive",
                            "hilbert"}
       THEN call.res # "value_error" /\ call.engine
       ELSE /\ call.res = "value_error"
            /\ ~call.engine
            /\ dd = NoObj

\* a constructor call with the capitalised name has been refused
C11_Witness ==
    /\ call.op = "ParNew"
    /\ call.a.ptype = "Hilbert"
    /\ call.a.err = ""
    /\ call.res = "value_error"
    /\ dd = NoObj

\* C12: curvature_metric of Mesh33 and Mesh22 called with h_n but without
\* h_n_tags returns an error, whatever the other arguments are, and the
\* engine that computes the metric is not called.
C12_NormalSizesNeedTags ==
    (call.op = "mesh_curvature_metric" /\ call.a.h_n /\ ~call.a.h_n_tags)
        => /\ call.res \in {"runtime_error", "type_error", "value_error"}
           /\ ~call.engine
           /\ ObjectsUntouched

\* the call was refused for the missing tags, on a Mesh22
C12_Witness ==
    /\ call.op = "mesh_curvature_metric"
    /\ call.pre.mesh.kind = "Mesh22"
    /\ call.a.h_n /\ call.a.h_n_contiguous /\ ~call.a.h_n_tags
    /\ call.msg = "h_n_tags not given"

\* C14: a LinearGeometry is not changed by being given to a Remesher: after
\* the construction of a Remesher from it, the geometry still holds its
\* data, max_distance and max_normal_angle on it still succeed, and a
\* further Remesher can be constructed from it.
C14_GeometryUnchangedByRemeshing ==
    /\ (call.op = "RemesherNew" /\ call.res # "value_error")
          => (geom = call.pre.geom /\ call.res # "panic")
    /\ call.op \in {"max_distance", "max_normal_angle"} => call.res = "ok"

\* C15: when the engine reports an error inside vertex_data_to_elem_data,
\* interpolate_linear, interpolate_nearest or the construction of a
\* LinearGeometry, the call returns a runtime error that carries the
\* engine's description; it never panics.
C15_EngineErrorsReported ==
    (/\ call.op \in {"vertex_data_to_elem_data", "interpolate_linear",
                     "interpolate_nearest", "GeomNew"}
     /\ call.engine
     /\ ~call.a.ok)
        => (call.res = "runtime_error" /\ call.msg = "engine error")
\* C27: elem_data_to_vertex_data_metric, given one row for every element,
\* reads the rows 0 .. n_elems - 1 of m and no others, whatever the number
\* of vertices of the mesh is.
C27_ReadsElementRows ==
    (/\ call.op = "elem_data_to_vertex_data_metric"
     /\ call.a.rows = call.pre.mesh.ne
     /\ call.a.cols = MetricN(call.a.t))
       => /\ call.res \in {"ok", "runtime_error"}
          /\ call.reads = call.pre.mesh.ne

\* C30: for every smooth_type string, also the omitted one, the smoothing
\* variant a remesh hands to the engine is the variant the other remesh
\* (sequential or parallel) selects for that string.
C30_SameSmoothingVariant ==
    (call.op \in RemeshOps /\ call.a.handed.some) =>
       /\ call.a.handed.v.smooth_type = SeqSmoothType(call.a.smooth_type)
       /\ call.a.handed.v.smooth_type = ParSmoothType(call.a.smooth_type)

====
